---- MODULE Spec2Model ----
(***************************************************************************)
(* A model of the dfs crate: the global store behind the Dfs facade        *)
(* (dfs_struct.rs, global_store/heed_store.rs), the ConnectedRoot          *)
(* (root/mod.rs) and the concurrent Indexer (root/index.rs).               *)
(***************************************************************************)
EXTENDS Integers, Sequences, FiniteSets, TLC

(***************************************************************************)
(* Bounds of the model.                                                    *)
(***************************************************************************)
\* number of Dfs / GlobalStore calls in one behaviour
MaxCalls == 3
\* number of root_dir() calls made by the caller before index()
MaxRootDirCalls == 2

(***************************************************************************)
(* Inputs of the Dfs facade.                                               *)
(***************************************************************************)
Names == {"a", "b"}

\* paths handed to new_root, and what the filesystem holds there
Paths == {"/A", "/A/.", "/B", "/F", "/M"}

PathExists(p) == p # "/M"

PathIsDir(p) == p \in {"/A", "/A/.", "/B"}

\* Path::canonicalize: the absolute path with "." components resolved
Canonicalize(p) == IF p = "/A/." THEN "/A" ELSE p

None == [some |-> FALSE]

Some(v) == [some |-> TRUE, val |-> v]

EmptyMap == [x \in {} |-> x]

MapPut(f, k, v) == [x \in (DOMAIN f) \cup {k} |-> IF x = k THEN v ELSE f[x]]

VARIABLES
    \* ---- global store (Heed) ----
    roots,          \* Database id -> StorableRoot
    root_names,     \* Database name -> id
    nextUuid,       \* the next value Uuid::new_v4 hands out
    calls,          \* history: the Dfs / GlobalStore calls made and their results
    peers,          \* Database id -> Peer
    dbs,            \* the named databases that exist in the env at cfg.global_db
    session,        \* the Dfs value: is one open, and where in calls it began
    threads,        \* threads calling into the GlobalStore: where each is in
                    \* its call, and the view its transaction has
    \* ---- per-root filesystem and ConnectedRoot ----
    present,        \* filesystem entries that exist at and below the root path
    rootIsFile,     \* TRUE when the root path holds a regular file
    failing,        \* directory -> "none" | "open" | "read" (I/O failure mode)
    dbFaulty,       \* TRUE when the local store backend may return an error
    caps,           \* the capacities Indexer::new gives the db and task_done
                    \* channels
    conn,           \* "disconnected" | "connected" | "indexing" | "returned",
                    \* or the DbConnectionError connect() failed with
    store_path,     \* the folder the LocalStore was opened in, -1 for none
    direntries,     \* LocalStore: id -> StorableDirEntry
    entryOf,        \* history: id -> filesystem entry the DirEntry was made for
    rootDirIds,     \* history: ids returned by the root_dir() calls, in order
    \* ---- Indexer / Inner ----
    root_id,
    todo_queue, db_queue, task_done, fatal_errors,
    queued, spawned, done, done_first,
    errors,
    workers,        \* spawned worker tasks, in spawn order
    driver,         \* the state of Indexer::index
    result,         \* "none" | "running" | "Ok" | "GetRootDir" | "Exists" |
                    \* "DbInteractionError" | "FatalError"
    placed          \* history: number of Tasks ever sent on todo_queue

gvars == <<roots, root_names, nextUuid, calls, peers, dbs, session, threads>>

fsvars == <<present, rootIsFile, failing, dbFaulty, caps>>

rvars == <<conn, store_path, direntries, entryOf, rootDirIds>>

ivars == <<root_id, todo_queue, db_queue, task_done, fatal_errors, queued,
           spawned, done, done_first, errors, workers, driver, result,
           placed>>

vars == <<gvars, fsvars, rvars, ivars>>

(***************************************************************************)
(* Global store: Heed (global_store/heed_store.rs)                         *)
(***************************************************************************)
\* Root::new: a StorableRoot with root_direntry_id: None
StorableRoot(id, name, path) ==
    [uuid |-> id, name |-> name, path |-> path, root_direntry_id |-> None]

\* put_root that forgets the root_names.get() half of the guard
put_root_NoNameCheck(rs, ns, id, root, overwrite) ==
    IF ~overwrite /\ id \in DOMAIN rs
    THEN [status |-> "Exists", roots |-> rs, root_names |-> ns]
    ELSE [status |-> "Ok",
          roots |-> MapPut(rs, id, root),
          root_names |-> MapPut(ns, root.name, id)]

\* put_root that writes roots but not root_names
put_root_NoNamePut(rs, ns, id, root, overwrite) ==
    IF ~overwrite /\ (id \in DOMAIN rs \/ root.name \in DOMAIN ns)
    THEN [status |-> "Exists", roots |-> rs, root_names |-> ns]
    ELSE [status |-> "Ok",
          roots |-> MapPut(rs, id, root),
          root_names |-> ns]

\* put_root with the Exists test inverted
put_root_Inverted(rs, ns, id, root, overwrite) ==
    IF ~overwrite /\ ~(id \in DOMAIN rs \/ root.name \in DOMAIN ns)
    THEN [status |-> "Exists", roots |-> rs, root_names |-> ns]
    ELSE [status |-> "Ok",
          roots |-> MapPut(rs, id, root),
          root_names |-> MapPut(ns, root.name, id)]

\* Heed::put_root: one write transaction over (rs, ns); an early return
\* drops the transaction, so the committed maps stay as they were.
put_root(rs, ns, id, root, overwrite) ==
    IF ~overwrite /\ (id \in DOMAIN rs \/ root.name \in DOMAIN ns)
    THEN [status |-> "Exists", roots |-> rs, root_names |-> ns]
    ELSE [status |-> "Ok",
          roots |-> MapPut(rs, id, root),
          root_names |-> MapPut(ns, root.name, id)]

\* Heed::get_root
get_root(id) == IF id \in DOMAIN roots THEN Some(roots[id]) ELSE None

\* Heed::get_root_by_name: root_names, then roots, in one read transaction
get_root_by_name(name) ==
    IF name \in DOMAIN root_names
    THEN (IF root_names[name] \in DOMAIN roots
          THEN Some(roots[root_names[name]])
          ELSE None)
    ELSE None

\* Heed::get_all_roots
get_all_roots == {roots[i] : i \in DOMAIN roots}

\* PutStatus::to_err as new_root uses it
ToErr(status) == IF status = "Exists" THEN "RootExists" ELSE "Ok"

\* Peer::new with the uuid Uuid::new_v4 handed out
Peer(id, name) == [uuid |-> id, name |-> name]

\* put_peer that never looks at the stored peers
put_peer_NoCheck(ps, id, peer, overwrite) ==
    [status |-> "Ok", peers |-> MapPut(ps, id, peer)]

\* Heed::put_peer: one write transaction over ps; the early return drops it
put_peer(ps, id, peer, overwrite) ==
    IF ~overwrite /\ id \in DOMAIN ps
    THEN [status |-> "Exists", peers |-> ps]
    ELSE [status |-> "Ok", peers |-> MapPut(ps, id, peer)]

\* Heed::get_peer
get_peer(id) == IF id \in DOMAIN peers THEN Some(peers[id]) ELSE None

\* Heed::get_all_peers: the values of the peers database, one per key
get_all_peers == {peers[i] : i \in DOMAIN peers}

\* PutStatus::to_err as new_peer uses it
ToPeerErr(status) == IF status = "Exists" THEN "PeerExists" ELSE "Ok"

\* the databases Heed::new names
DbNames == {"peers", "roots", "roots_names"}

\* create_database that starts every database empty
create_database_Truncate(created, name, db) == EmptyMap

\* env.create_database(Some(name)): opens the database when the env holds
\* it, creates it empty otherwise
create_database(created, name, db) ==
    IF name \in created THEN db ELSE EmptyMap

\* a Dfs is open; its calls are those after position start of calls
Opened(start) == [open |-> TRUE, start |-> start]

(***************************************************************************)
(* Dfs facade (dfs_struct.rs)                                              *)
(***************************************************************************)
\* new_root that asks the store about the name before it looks at the path
NewRoot_NameFirst(path, name) ==
    /\ Len(calls) < MaxCalls
    /\ session.open
    /\ UNCHANGED <<peers, dbs, session, threads, fsvars, rvars, ivars>>
    /\ LET res == IF name \in DOMAIN root_names THEN "RootExists"
                  ELSE IF ~PathExists(path) THEN "PathDoesntExist"
                  ELSE IF ~PathIsDir(path) THEN "PathIsNotDir"
                  ELSE "Ok"
           id == IF res = "Ok" THEN nextUuid ELSE 0
           root == StorableRoot(id, name, Canonicalize(path))
       IN  /\ calls' = Append(calls, [op |-> "new_root", name |-> name,
                                      path |-> path, id |-> id,
                                      overwrite |-> FALSE, res |-> res])
           /\ IF res = "Ok"
              THEN /\ nextUuid' = nextUuid + 1
                   /\ roots' = MapPut(roots, id, root)
                   /\ root_names' = MapPut(root_names, name, id)
              ELSE UNCHANGED <<roots, root_names, nextUuid>>

\* Dfs::new_root(path, name)
NewRoot(path, name) ==
    /\ Len(calls) < MaxCalls
    /\ session.open
    /\ UNCHANGED <<peers, dbs, session, threads, fsvars, rvars, ivars>>
    /\ IF ~PathExists(path)
       THEN /\ calls' = Append(calls, [op |-> "new_root", name |-> name,
                                       path |-> path, id |-> 0,
                                       overwrite |-> FALSE,
                                       res |-> "PathDoesntExist"])
            /\ UNCHANGED <<roots, root_names, nextUuid>>
       ELSE IF ~PathIsDir(path)
       THEN /\ calls' = Append(calls, [op |-> "new_root", name |-> name,
                                       path |-> path, id |-> 0,
                                       overwrite |-> FALSE,
                                       res |-> "PathIsNotDir"])
            /\ UNCHANGED <<roots, root_names, nextUuid>>
       ELSE LET id == nextUuid
                root == StorableRoot(id, name, Canonicalize(path))
                r == put_root(roots, root_names, id, root, FALSE)
            IN  /\ nextUuid' = nextUuid + 1
                /\ roots' = r.roots
                /\ root_names' = r.root_names
                /\ calls' = Append(calls, [op |-> "new_root", name |-> name,
                                           path |-> path, id |-> id,
                                           overwrite |-> FALSE,
                                           res |-> ToErr(r.status)])

\* GlobalStore::put_root called directly, with an id of the caller's choice
PutRoot(id, name, path, overwrite) ==
    /\ Len(calls) < MaxCalls
    /\ session.open
    /\ UNCHANGED <<peers, dbs, session, threads, fsvars, rvars, ivars>>
    /\ LET root == StorableRoot(id, name, path)
           r == put_root(roots, root_names, id, root, overwrite)
       IN  /\ nextUuid' = IF id = nextUuid THEN nextUuid + 1 ELSE nextUuid
           /\ roots' = r.roots
           /\ root_names' = r.root_names
           /\ calls' = Append(calls, [op |-> "put_root", name |-> name,
                                      path |-> path, id |-> id,
                                      overwrite |-> overwrite,
                                      res |-> r.status])

\* new_peer that refuses a name some stored peer already has
NewPeer_NameCheck(name) ==
    /\ Len(calls) < MaxCalls
    /\ session.open
    /\ UNCHANGED <<roots, root_names, dbs, session, threads, fsvars, rvars, ivars>>
    /\ LET id == nextUuid
           taken == \E i \in DOMAIN peers : peers[i].name = name
       IN  /\ nextUuid' = nextUuid + 1
           /\ peers' = IF taken THEN peers
                       ELSE MapPut(peers, id, Peer(id, name))
           /\ calls' = Append(calls, [op |-> "new_peer", name |-> name,
                                      path |-> "", id |-> id,
                                      overwrite |-> FALSE,
                                      res |-> IF taken THEN "PeerExists"
                                              ELSE "Ok"])

\* Dfs::new_peer(name)
NewPeer(name) ==
    /\ Len(calls) < MaxCalls
    /\ session.open
    /\ UNCHANGED <<roots, root_names, dbs, session, threads, fsvars, rvars, ivars>>
    /\ LET id == nextUuid
           r == put_peer(peers, id, Peer(id, name), FALSE)
       IN  /\ nextUuid' = nextUuid + 1
           /\ peers' = r.peers
           /\ calls' = Append(calls, [op |-> "new_peer", name |-> name,
                                      path |-> "", id |-> id,
                                      overwrite |-> FALSE,
                                      res |-> ToPeerErr(r.status)])

\* GlobalStore::put_peer called directly, with an id of the caller's choice
PutPeer(id, name, overwrite) ==
    /\ Len(calls) < MaxCalls
    /\ session.open
    /\ UNCHANGED <<roots, root_names, dbs, session, threads, fsvars, rvars, ivars>>
    /\ LET r == put_peer(peers, id, Peer(id, name), overwrite)
       IN  /\ nextUuid' = IF id = nextUuid THEN nextUuid + 1 ELSE nextUuid
           /\ peers' = r.peers
           /\ calls' = Append(calls, [op |-> "put_peer", name |-> name,
                                      path |-> "", id |-> id,
                                      overwrite |-> overwrite,
                                      res |-> r.status])

\* the Dfs goes out of scope: the Heed env is closed, the data stays on disk
DropDfs ==
    /\ session.open
    /\ session' = [session EXCEPT !.open = FALSE]
    /\ UNCHANGED <<roots, root_names, nextUuid, calls, peers, dbs, threads, fsvars,
                   rvars, ivars>>

\* Dfs::new -> Heed::new on the same cfg.global_db
OpenDfs ==
    /\ ~session.open
    /\ peers' = create_database(dbs, "peers", peers)
    /\ roots' = create_database(dbs, "roots", roots)
    /\ root_names' = create_database(dbs, "roots_names", root_names)
    /\ dbs' = dbs \cup DbNames
    /\ session' = Opened(Len(calls))
    /\ UNCHANGED <<nextUuid, calls, threads, fsvars, rvars, ivars>>

(***************************************************************************)
(* The filesystem below the connected root.                                *)
(*   0 = the root directory      1 = <root>/.dfs  (cfg.local_db)           *)
(*   2 = <root>/a   (directory)  3 = <root>/a/b   (directory)              *)
(*   4 = <root>/a/d.txt (file)                                             *)
(***************************************************************************)
RootNode == 0

MetaNode == 1

UserNodes == {2, 3, 4}

Nodes == {RootNode, MetaNode} \cup UserNodes

Parent(n) == CASE n = 1 -> 0 [] n = 2 -> 0 [] n = 3 -> 2 [] n = 4 -> 2 [] OTHER -> -1

IsDir(n) == n \in {0, 1, 2, 3}

Dirs == {n \in Nodes : IsDir(n)}

\* at most this many directories fail with an I/O error in one behaviour
MaxFailing == 1

\* the entries fs::read_dir(d) yields
Children(d) == {n \in present : Parent(n) = d}

\* the shared trees explored: empty, a/b/ and a/d.txt
Trees == {{}, {2, 3}, {2, 4}}

FailModes == {f \in [Dirs -> {"none", "open", "read"}] :
                 /\ f[MetaNode] = "none"
                 /\ Cardinality({d \in Dirs : f[d] # "none"}) <= MaxFailing}

\* the root this ConnectedRoot was made from (Root::new leaves
\* root_direntry_id at None and nothing ever assigns it)
ConnectedStorable == StorableRoot(1, "a", "/A")

(***************************************************************************)
(* LocalStore (root/local_store/sled_store.rs, heed_store.rs)              *)
(***************************************************************************)
\* DirEntry::new
StorableDirEntry(id, path, parent, is_dir) ==
    [path |-> path,
     entry_type |-> IF is_dir THEN "Dir" ELSE "File",
     uuid |-> id,
     parent |-> parent]

\* Sled::put_direntry / Heed::put_direntry: the overwrite test is commented
\* out in both backends, the entry is always inserted and Ok returned
put_direntry(store, id, dir, overwrite) ==
    [status |-> "Ok", direntries |-> MapPut(store, id, dir)]

\* get_direntry
get_direntry(store, id) == IF id \in DOMAIN store THEN Some(store[id]) ELSE None

\* ConnectedRoot::get_by_id on the store as it is (DirEntry::from_storable
\* wraps the stored record unchanged)
get_by_id(store, id) == get_direntry(store, id)

(***************************************************************************)
(* ConnectedRoot (root/mod.rs)                                             *)
(***************************************************************************)
\* what create_dir_all and LS::new can do in this behaviour
ConnectErrs == IF dbFaulty THEN {"none", "CreateFolder", "DbInteractionError"}
               ELSE {"none"}

\* a connect that makes the hidden folder before it looks at the root path
\* (create_dir_all makes the missing parents too)
Connect_MkdirFirst ==
    /\ conn = "disconnected"
    /\ present' = present \cup {RootNode, MetaNode}
    /\ IF RootNode \notin present
       THEN conn' = "RootPathDoesntExist" /\ UNCHANGED store_path
       ELSE IF rootIsFile
       THEN conn' = "PathIsFile" /\ UNCHANGED store_path
       ELSE conn' = "connected" /\ store_path' = MetaNode
    /\ UNCHANGED <<gvars, rootIsFile, failing, dbFaulty, caps, direntries, entryOf,
                   rootDirIds, ivars>>

\* ConnectedRoot::new: the checks on the root path, then the hidden folder
\* <root.path>/<cfg.local_db> is created when absent and the store opened
\* in it.  The Root is consumed: a failed connect is final.
Connect ==
    /\ conn = "disconnected"
    /\ IF RootNode \notin present
       THEN conn' = "RootPathDoesntExist" /\ UNCHANGED <<present, store_path>>
       ELSE IF rootIsFile
       THEN conn' = "PathIsFile" /\ UNCHANGED <<present, store_path>>
       ELSE \E e \in ConnectErrs :
              IF MetaNode \notin present /\ e = "CreateFolder"
              THEN conn' = "CreateFolder" /\ UNCHANGED <<present, store_path>>
              ELSE /\ present' = present \cup {MetaNode}
                   /\ IF e = "DbInteractionError"
                      THEN conn' = "DbInteractionError" /\ UNCHANGED store_path
                      ELSE conn' = "connected" /\ store_path' = MetaNode
    /\ UNCHANGED <<gvars, rootIsFile, failing, dbFaulty, caps, direntries, entryOf,
                   rootDirIds, ivars>>

\* ConnectedRoot::create_root
create_root_NoDirTest(err) ==
    IF err
    THEN [id |-> 0, res |-> "DbError", direntries |-> direntries,
          nextUuid |-> nextUuid + 1]
    ELSE LET root == StorableDirEntry(nextUuid, "/", None, TRUE)
         IN  [id |-> nextUuid, res |-> "Ok",
              direntries |-> put_direntry(direntries, nextUuid, root, TRUE).direntries,
              nextUuid |-> nextUuid + 1]

\* ConnectedRoot::create_root: a new entry "/" with a fresh id, put with
\* overwrite = true.  The result is the id, or 0 for an error (the path is
\* not a directory, or the backend failed).
\* err says whether the backend fails this put.
create_root(err) ==
    IF ~(RootNode \in present /\ ~rootIsFile)
    THEN [id |-> 0, res |-> "NotDir", direntries |-> direntries, nextUuid |-> nextUuid]
    ELSE IF err
    THEN [id |-> 0, res |-> "DbError", direntries |-> direntries,
          nextUuid |-> nextUuid + 1]
    ELSE LET root == StorableDirEntry(nextUuid, "/", None, TRUE)
         IN  [id |-> nextUuid, res |-> "Ok",
              direntries |-> put_direntry(direntries, nextUuid, root, TRUE).direntries,
              nextUuid |-> nextUuid + 1]

\* ConnectedRoot::root_dir
root_dir(err) ==
    IF RootNode \notin present
    THEN [id |-> 0, res |-> "Exists", direntries |-> direntries, nextUuid |-> nextUuid]
    ELSE IF ConnectedStorable.root_direntry_id.some
    THEN (IF get_direntry(direntries, ConnectedStorable.root_direntry_id.val).some
          THEN [id |-> ConnectedStorable.root_direntry_id.val, res |-> "Ok",
                direntries |-> direntries, nextUuid |-> nextUuid]
          ELSE create_root(err))
    ELSE create_root(err)

\* the backend outcomes a put can have in this behaviour
PutErrs == IF dbFaulty THEN {FALSE, TRUE} ELSE {FALSE}

\* a caller's root_dir() on the connected root
RootDir ==
    /\ conn = "connected"
    /\ Len(rootDirIds) < MaxRootDirCalls
    /\ \E err \in PutErrs :
         LET r == root_dir(err)
         IN  /\ direntries' = r.direntries
             /\ nextUuid' = r.nextUuid
             /\ rootDirIds' = Append(rootDirIds, r.id)
             /\ calls' = Append(calls, [op |-> "root_dir", res |-> r.res, id |-> r.id])
             /\ entryOf' = IF r.id # 0 /\ r.id \notin DOMAIN entryOf
                           THEN MapPut(entryOf, r.id, RootNode) ELSE entryOf
    /\ UNCHANGED <<roots, root_names, peers, dbs, session, threads, fsvars, conn,
                   store_path, ivars>>

\* the root's path is removed from the file system while the root is connected
RemoveRootPath ==
    /\ conn = "connected"
    /\ RootNode \in present
    /\ present' = {}
    /\ rootIsFile' = FALSE
    /\ failing' = [d \in Dirs |-> "none"]
    /\ UNCHANGED <<gvars, dbFaulty, caps, rvars, ivars>>

\* the root's directory is replaced by a regular file of the same name while
\* the root is connected
ReplaceRootByFile ==
    /\ conn = "connected"
    /\ RootNode \in present
    /\ ~rootIsFile
    /\ present' = {RootNode}
    /\ rootIsFile' = TRUE
    /\ failing' = [d \in Dirs |-> "none"]
    /\ UNCHANGED <<gvars, dbFaulty, caps, rvars, ivars>>

\* LocalStore::put_direntry called directly on the root's connection, with
\* an id of the caller's choice
PutDirentry(id, is_dir, overwrite) ==
    /\ conn = "connected"
    /\ Len(calls) < MaxCalls
    /\ \E err \in PutErrs :
         LET entry == StorableDirEntry(id, "", None, is_dir)
             r == put_direntry(direntries, id, entry, overwrite)
         IN  /\ direntries' = IF err THEN direntries ELSE r.direntries
             /\ calls' = Append(calls, [op |-> "put_direntry", name |-> "",
                                        path |-> "", id |-> id,
                                        overwrite |-> overwrite,
                                        is_dir |-> is_dir,
                                        res |-> IF err THEN "Err"
                                                ELSE r.status])
    /\ nextUuid' = IF id = nextUuid THEN nextUuid + 1 ELSE nextUuid
    /\ UNCHANGED <<roots, root_names, peers, dbs, session, threads, fsvars, conn,
                   store_path, entryOf, rootDirIds, ivars>>

(***************************************************************************)
(* Indexer (root/index.rs)                                                 *)
(***************************************************************************)
DbQueueCap == 1024

TaskDoneCap == 1024

\* channel(1024) for db_tx / db_rx and for task_done_tx / task_done_rx
SourceCaps == [db_queue |-> DbQueueCap, task_done |-> TaskDoneCap]

\* the capacity both channels get in the scaled-down specification, where
\* the simultaneous workers outnumber it
ScaledCap == 1

ScaledCaps == [db_queue |-> ScaledCap, task_done |-> ScaledCap]

FatalErrorsCap == 1

\* receivers that are already gone while the driver makes its termination
\* test
Closed_WhileChecking == result \notin {"none", "running"} \/ driver.pc = "check"

\* the receivers live in Indexer::index; they are dropped when it returns
Closed == result \notin {"none", "running"}

Task(path, parent_id) == [path |-> path, parent_id |-> parent_id]

NewWorker(task) ==
    [task |-> task, pc |-> "open", rem |-> {}, seen |-> {}, cur |-> -1,
     reply |-> 0, ident |-> 0]

DriverIdle == [pc |-> "idle", no_next_task |-> "pending",
               done |-> 0, queued |-> 0, spawned |-> 0]

\* ConnectedRoot::index -> Indexer::new: root_dir(), seed todo_queue,
\* queued = 1; then Indexer::index enters its loop
StartIndex ==
    /\ conn = "connected"
    /\ \E err \in PutErrs :
         LET r == root_dir(err)
         IN  /\ direntries' = r.direntries
             /\ nextUuid' = r.nextUuid
             /\ rootDirIds' = Append(rootDirIds, r.id)
             /\ entryOf' = IF r.id # 0 /\ r.id \notin DOMAIN entryOf
                           THEN MapPut(entryOf, r.id, RootNode) ELSE entryOf
             /\ IF r.id = 0
                THEN /\ result' = "GetRootDir"
                     /\ conn' = "returned"
                     /\ UNCHANGED <<root_id, todo_queue, queued, placed, driver>>
                ELSE /\ result' = "running"
                     /\ conn' = "indexing"
                     /\ root_id' = r.id
                     /\ todo_queue' = <<Task(RootNode, r.id)>>
                     /\ placed' = 1
                     /\ queued' = 1
                     /\ driver' = [DriverIdle EXCEPT !.pc = "select"]
    /\ UNCHANGED <<roots, root_names, calls, peers, dbs, session, threads, fsvars,
                   store_path, db_queue, task_done, fatal_errors, spawned, done,
                   done_first, errors, workers>>

\* dropping db_rx drops the queued DbMessages and with them their resp
\* senders: the workers awaiting those replies see the channel closed
DropReplies(ws, q) ==
    [w \in DOMAIN ws |->
        IF \E i \in DOMAIN q : q[i].resp = w
        THEN [ws[w] EXCEPT !.reply = -1]
        ELSE ws[w]]

\* Indexer::index returns res: the Indexer and all its receivers are dropped
Return(res) ==
    /\ result' = res
    /\ conn' = "returned"
    /\ driver' = [driver EXCEPT !.pc = "returned"]
    /\ workers' = DropReplies(workers, db_queue)
    /\ db_queue' = <<>>
    /\ task_done' = <<>>
    /\ fatal_errors' = <<>>
    /\ UNCHANGED todo_queue

\* select branch: task_done_rx.recv(), then done.load()
SelTaskDone ==
    /\ task_done' = Tail(task_done)
    /\ driver' = [driver EXCEPT !.pc = "load_queued", !.done = done]
    /\ UNCHANGED <<gvars, fsvars, rvars, root_id, todo_queue, db_queue,
                   fatal_errors, queued, spawned, done, done_first, errors,
                   workers, result, placed>>

\* select branch: fatal_error.recv() yields Some(e)
SelFatal ==
    /\ Return("FatalError")
    /\ UNCHANGED <<gvars, fsvars, store_path, direntries, entryOf, rootDirIds,
                   root_id,
                   queued, spawned, done, done_first, errors, placed>>

\* Indexer::handle_db_message that answers without persisting the entry
handle_db_message_NoPut(msg, err) ==
    IF err
    THEN [res |-> "DbInteractionError", direntries |-> direntries,
          reply |-> -1, id |-> nextUuid]
    ELSE [res |-> "Ok", direntries |-> direntries,
          reply |-> nextUuid, id |-> nextUuid]

\* Indexer::handle_db_message over a backend that writes before it fails
handle_db_message_StoresOnErr(msg, err) ==
    LET id == nextUuid
        entry == StorableDirEntry(id, "", Some(msg.parent_id), IsDir(msg.entry))
        r == put_direntry(direntries, id, entry, FALSE)
    IN  IF err
        THEN [res |-> "DbInteractionError", direntries |-> r.direntries,
              reply |-> -1, id |-> id]
        ELSE [res |-> "Ok", direntries |-> r.direntries,
              reply |-> id, id |-> id]

\* Indexer::handle_db_message that takes the parent from the wrong place
handle_db_message_RootParent(msg, err) ==
    LET id == nextUuid
        entry == StorableDirEntry(id, "", Some(root_id), IsDir(msg.entry))
        r == put_direntry(direntries, id, entry, FALSE)
    IN  IF err
        THEN [res |-> "DbInteractionError", direntries |-> direntries,
              reply |-> -1, id |-> id]
        ELSE IF r.status = "Exists"
        THEN [res |-> "Exists", direntries |-> r.direntries,
              reply |-> -1, id |-> id]
        ELSE [res |-> "Ok", direntries |-> r.direntries,
              reply |-> id, id |-> id]

\* Indexer::handle_db_message that stores the entry under the parent's key
handle_db_message_ParentKey(msg, err) ==
    LET id == nextUuid
        entry == StorableDirEntry(id, "", Some(msg.parent_id), IsDir(msg.entry))
        r == put_direntry(direntries, msg.parent_id, entry, FALSE)
    IN  IF err
        THEN [res |-> "DbInteractionError", direntries |-> direntries,
              reply |-> -1, id |-> id]
        ELSE [res |-> "Ok", direntries |-> r.direntries,
              reply |-> id, id |-> id]

\* Indexer::handle_db_message that answers with the id of the parent
handle_db_message_ReplyParent(msg, err) ==
    LET id == nextUuid
        entry == StorableDirEntry(id, "", Some(msg.parent_id), IsDir(msg.entry))
        r == put_direntry(direntries, id, entry, FALSE)
    IN  IF err
        THEN [res |-> "DbInteractionError", direntries |-> direntries,
              reply |-> -1, id |-> id]
        ELSE IF r.status = "Exists"
        THEN [res |-> "Exists", direntries |-> r.direntries,
              reply |-> -1, id |-> id]
        ELSE [res |-> "Ok", direntries |-> r.direntries,
              reply |-> msg.parent_id, id |-> id]

\* Indexer::handle_db_message: a DirEntry with a fresh id, the default
\* (empty) path and parent Some(msg.parent_id); put with overwrite = false;
\* on Ok the id is sent on msg.resp, otherwise msg (and resp) is dropped.
\* err says whether the backend fails this put.
handle_db_message(msg, err) ==
    LET id == nextUuid
        entry == StorableDirEntry(id, "", Some(msg.parent_id), IsDir(msg.entry))
        r == put_direntry(direntries, id, entry, FALSE)
    IN  IF err
        THEN [res |-> "DbInteractionError", direntries |-> direntries,
              reply |-> -1, id |-> id]
        ELSE IF r.status = "Exists"
        THEN [res |-> "Exists", direntries |-> r.direntries,
              reply |-> -1, id |-> id]
        ELSE [res |-> "Ok", direntries |-> r.direntries,
              reply |-> id, id |-> id]

\* select branch: db_rx.recv() yields Some(msg)
SelDb ==
    \E err \in PutErrs :
      LET msg == Head(db_queue)
          h == handle_db_message(msg, err)
      IN  /\ nextUuid' = nextUuid + 1
          /\ direntries' = h.direntries
          /\ entryOf' = IF h.id \in DOMAIN h.direntries
                        THEN MapPut(entryOf, h.id, msg.entry) ELSE entryOf
          /\ IF h.res = "Ok"
             THEN /\ db_queue' = Tail(db_queue)
                  /\ workers' = [workers EXCEPT ![msg.resp].reply = h.reply]
                  /\ UNCHANGED <<conn, driver, result, task_done,
                                 fatal_errors, todo_queue>>
             ELSE /\ result' = h.res
                  /\ conn' = "returned"
                  /\ driver' = [driver EXCEPT !.pc = "returned"]
                  /\ workers' = [w \in DOMAIN workers |->
                        IF w = msg.resp
                        THEN [workers[w] EXCEPT !.reply = h.reply]
                        ELSE DropReplies(workers, Tail(db_queue))[w]]
                  /\ db_queue' = <<>>
                  /\ task_done' = <<>>
                  /\ fatal_errors' = <<>>
                  /\ UNCHANGED todo_queue
          /\ UNCHANGED <<roots, root_names, calls, peers, dbs, session, threads, fsvars,
                         store_path, rootDirIds, root_id, queued, spawned, done,
                         done_first, errors, placed>>

\* a pump handler that starts the next do_index on the old oneshot, whose
\* sender the finished do_index has dropped
SelPump_KeepOneshot ==
    /\ spawned' = spawned + 1
    /\ workers' = Append(workers, NewWorker(Head(todo_queue)))
    /\ todo_queue' = Tail(todo_queue)
    /\ driver' = [driver EXCEPT !.no_next_task = "closed"]
    /\ UNCHANGED <<gvars, fsvars, rvars, root_id, db_queue, task_done,
                   fatal_errors, queued, done, done_first, errors, result,
                   placed>>

\* select branch: the do_index future completes: it took a Task from
\* todo_queue, spawned += 1, spawned the worker (and dropped its unused
\* no_next_task sender); the handler installs a fresh oneshot and future
SelPump ==
    /\ spawned' = spawned + 1
    /\ workers' = Append(workers, NewWorker(Head(todo_queue)))
    /\ todo_queue' = Tail(todo_queue)
    /\ driver' = [driver EXCEPT !.no_next_task = "pending"]
    /\ UNCHANGED <<gvars, fsvars, rvars, root_id, db_queue, task_done,
                   fatal_errors, queued, done, done_first, errors, result,
                   placed>>

\* select branch: no_next_task_rx resolved: break, Ok
SelNoNextTask ==
    /\ Return("Ok")
    /\ UNCHANGED <<gvars, fsvars, store_path, direntries, entryOf, rootDirIds,
                   root_id,
                   queued, spawned, done, done_first, errors, placed>>

\* a select! without the task_done_rx.recv() branch
DriverSelect_NoTaskDone ==
    /\ result = "running"
    /\ driver.pc = "select"
    /\ IF driver.no_next_task # "pending" THEN SelNoNextTask
       ELSE IF fatal_errors # <<>> THEN SelFatal
       ELSE IF db_queue # <<>> THEN SelDb
       ELSE IF todo_queue # <<>> THEN SelPump
       ELSE FALSE

\* one turn of the biased select! in Indexer::index: the first ready branch
DriverSelect ==
    /\ result = "running"
    /\ driver.pc = "select"
    /\ IF driver.no_next_task # "pending" THEN SelNoNextTask
       ELSE IF task_done # <<>> THEN SelTaskDone
       ELSE IF fatal_errors # <<>> THEN SelFatal
       ELSE IF db_queue # <<>> THEN SelDb
       ELSE IF todo_queue # <<>> THEN SelPump
       ELSE FALSE

\* task_done branch, continued: queued.load(), spawned.load()
DriverLoadQueued ==
    /\ result = "running"
    /\ driver.pc = "load_queued"
    /\ driver' = [driver EXCEPT !.pc = "check", !.queued = queued,
                                !.spawned = spawned]
    /\ UNCHANGED <<gvars, fsvars, rvars, root_id, todo_queue, db_queue,
                   task_done, fatal_errors, queued, spawned, done, done_first,
                   errors, workers, result, placed>>

\* the termination test with the in-flight workers left out
Quiescent_NoDoing(d, q, s, first) == q - d = 0 /\ first

\* the termination test of the task_done branch
Quiescent(d, q, s, first) == q - d = 0 /\ s - d = 0 /\ first

\* task_done branch, continued: done_first.load() and the test
DriverCheck ==
    /\ result = "running"
    /\ driver.pc = "check"
    /\ IF Quiescent(driver.done, driver.queued, driver.spawned, done_first)
       THEN Return("Ok")
       ELSE /\ driver' = [driver EXCEPT !.pc = "select"]
            /\ UNCHANGED <<conn, result, workers, db_queue, task_done,
                           fatal_errors, todo_queue>>
    /\ UNCHANGED <<gvars, fsvars, store_path, direntries, entryOf, rootDirIds,
                   root_id,
                   queued, spawned, done, done_first, errors, placed>>

(***************************************************************************)
(* A spawned worker: the async block of do_index running                   *)
(* Inner::process_task and Inner::index_direntry                           *)
(***************************************************************************)
WUnchanged == <<gvars, fsvars, rvars, root_id, driver, result>>

\* an errors.push(e) after which the spawned task ends at once
PushErr_NoDone(w) ==
    /\ errors' = Append(errors, [path |-> workers[w].task.path])
    /\ workers' = [workers EXCEPT ![w].pc = "exit"]

\* the non_fatal! arm and the caller's errors.push(e): the worker goes on
\* to done.fetch_add
PushErr(w) ==
    /\ errors' = Append(errors, [path |-> workers[w].task.path])
    /\ workers' = [workers EXCEPT ![w].pc = "inc_done"]

\* fs::read_dir(&task.path)
WOpen(w) ==
    /\ workers[w].pc = "open"
    /\ IF failing[workers[w].task.path] = "open"
       THEN PushErr(w)
       ELSE /\ workers' = [workers EXCEPT ![w] =
                  [@ EXCEPT !.pc = "next",
                            !.rem = Children(workers[w].task.path)]]
            /\ UNCHANGED errors
    /\ UNCHANGED <<WUnchanged, todo_queue, db_queue, task_done, fatal_errors,
                   queued, spawned, done, done_first, placed>>

\* an index_direntry that, when its send on db_queue fails, puts the entry
\* into the store itself
WNextEntry_PutsWhenClosed(w) ==
    LET wk == workers[w]
        id == nextUuid
    IN  /\ wk.pc = "next"
        /\ \E e \in wk.rem :
             IF Closed
             THEN /\ workers' = [workers EXCEPT ![w] =
                        [@ EXCEPT !.pc = "wait", !.rem = @ \ {e},
                                  !.seen = @ \cup {e}, !.cur = e,
                                  !.reply = -1]]
                  /\ direntries' = put_direntry(direntries, id,
                        StorableDirEntry(id, "", Some(wk.task.parent_id), IsDir(e)),
                        FALSE).direntries
                  /\ UNCHANGED db_queue
             ELSE /\ Len(db_queue) < caps.db_queue
                  /\ db_queue' = Append(db_queue,
                        [resp |-> w, entry |-> e,
                         parent_id |-> wk.task.parent_id])
                  /\ workers' = [workers EXCEPT ![w] =
                        [@ EXCEPT !.pc = "wait", !.rem = @ \ {e},
                                  !.seen = @ \cup {e}, !.cur = e,
                                  !.reply = 0]]
                  /\ UNCHANGED direntries
        /\ UNCHANGED <<roots, root_names, nextUuid, calls, peers, dbs, session,
                       threads, fsvars, conn, store_path, entryOf, rootDirIds,
                       root_id, driver, result, todo_queue, task_done,
                       fatal_errors, queued, spawned, done, done_first, errors,
                       placed>>

\* an index_direntry that holds the store and puts the entry itself
WNextEntry_WritesStore(w) ==
    LET wk == workers[w]
        id == nextUuid
    IN  /\ wk.pc = "next"
        /\ \E e \in wk.rem :
             /\ direntries' = put_direntry(direntries, id,
                    StorableDirEntry(id, "", Some(wk.task.parent_id), IsDir(e)),
                    FALSE).direntries
             /\ entryOf' = MapPut(entryOf, id, e)
             /\ workers' = [workers EXCEPT ![w] =
                    [@ EXCEPT !.pc = "wait", !.rem = @ \ {e},
                              !.seen = @ \cup {e}, !.cur = e, !.reply = id]]
        /\ nextUuid' = nextUuid + 1
        /\ UNCHANGED <<roots, root_names, calls, peers, dbs, session, threads, fsvars,
                       conn, store_path, rootDirIds, root_id, driver, result,
                       db_queue, todo_queue, task_done, fatal_errors,
                       queued, spawned, done, done_first, errors, placed>>

\* dir.next_entry() yields Some(entry): index_direntry sends the DbMessage
WNextEntry(w) ==
    LET wk == workers[w]
    IN  /\ wk.pc = "next"
        /\ \E e \in wk.rem :
             IF Closed
             THEN /\ workers' = [workers EXCEPT ![w] =
                        [@ EXCEPT !.pc = "wait", !.rem = @ \ {e},
                                  !.seen = @ \cup {e}, !.cur = e,
                                  !.reply = -1]]
                  /\ UNCHANGED db_queue
             ELSE /\ Len(db_queue) < caps.db_queue
                  /\ db_queue' = Append(db_queue,
                        [resp |-> w, entry |-> e,
                         parent_id |-> wk.task.parent_id])
                  /\ workers' = [workers EXCEPT ![w] =
                        [@ EXCEPT !.pc = "wait", !.rem = @ \ {e},
                                  !.seen = @ \cup {e}, !.cur = e,
                                  !.reply = 0]]
        /\ UNCHANGED <<WUnchanged, todo_queue, task_done, fatal_errors,
                       queued, spawned, done, done_first, errors, placed>>

\* dir.next_entry() yields Err(e): process_task returns the NonFatalIndexError
WNextFails(w) ==
    /\ workers[w].pc = "next"
    /\ failing[workers[w].task.path] = "read"
    /\ PushErr(w)
    /\ UNCHANGED <<WUnchanged, todo_queue, db_queue, task_done, fatal_errors,
                   queued, spawned, done, done_first, placed>>

\* process_task, after the loop: task.parent_id == self.root_id
SetsDoneFirst(task) == task.parent_id = root_id

\* dir.next_entry() yields None: the loop ends, done_first is stored for
\* the root Task and process_task returns Ok
WNextNone(w) ==
    /\ workers[w].pc = "next"
    /\ failing[workers[w].task.path] # "read"
    /\ workers[w].rem = {}
    /\ done_first' = IF SetsDoneFirst(workers[w].task) THEN TRUE ELSE done_first
    /\ workers' = [workers EXCEPT ![w].pc = "inc_done"]
    /\ UNCHANGED <<WUnchanged, todo_queue, db_queue, task_done, fatal_errors,
                   queued, spawned, done, errors, placed>>

\* a worker that does not test path.is_dir() before sending the sub-Task
WReply_AllEntries(w) ==
    LET wk == workers[w]
    IN  /\ wk.pc = "wait"
        /\ wk.reply # 0
        /\ workers' = [workers EXCEPT ![w] =
              IF wk.reply = -1
              THEN [@ EXCEPT !.pc = "fatal", !.cur = -1, !.reply = 0]
              ELSE [@ EXCEPT !.pc = "send_task", !.ident = wk.reply, !.reply = 0]]
        /\ UNCHANGED <<WUnchanged, todo_queue, db_queue, task_done,
                       fatal_errors, queued, spawned, done, done_first,
                       errors, placed>>

\* resp_rx.await in index_direntry, then path.is_dir() in process_task
WReply(w) ==
    LET wk == workers[w]
    IN  /\ wk.pc = "wait"
        /\ wk.reply # 0
        /\ workers' = [workers EXCEPT ![w] =
              IF wk.reply = -1
              THEN [@ EXCEPT !.pc = "fatal", !.cur = -1, !.reply = 0]
              ELSE IF IsDir(wk.cur)
              THEN [@ EXCEPT !.pc = "send_task", !.ident = wk.reply, !.reply = 0]
              ELSE [@ EXCEPT !.pc = "next", !.cur = -1, !.reply = 0]]
        /\ UNCHANGED <<WUnchanged, todo_queue, db_queue, task_done,
                       fatal_errors, queued, spawned, done, done_first,
                       errors, placed>>

\* the Err arm of resp_rx.await: fatal_errors_tx.send(GetId), then panic!()
WFatal(w) ==
    /\ workers[w].pc = "fatal"
    /\ IF Closed
       THEN UNCHANGED fatal_errors
       ELSE /\ Len(fatal_errors) < FatalErrorsCap
            /\ fatal_errors' = Append(fatal_errors, "GetId")
    /\ workers' = [workers EXCEPT ![w].pc = "panic"]
    /\ UNCHANGED <<WUnchanged, todo_queue, db_queue, task_done, queued,
                   spawned, done, done_first, errors, placed>>

\* a worker that sends the sub-Task twice
WSendTask_Twice(w) ==
    LET wk == workers[w]
    IN  /\ wk.pc = "send_task"
        /\ IF Closed
           THEN UNCHANGED <<todo_queue, placed>>
           ELSE /\ todo_queue' = todo_queue \o <<Task(wk.cur, wk.ident),
                                                 Task(wk.cur, wk.ident)>>
                /\ placed' = placed + 2
        /\ workers' = [workers EXCEPT ![w] =
              [@ EXCEPT !.pc = "count", !.cur = -1, !.ident = 0]]
        /\ UNCHANGED <<WUnchanged, db_queue, task_done, fatal_errors, queued,
                       spawned, done, done_first, errors>>

\* todo_queue_tx.send(Task { path, parent_id: identifier })
WSendTask(w) ==
    LET wk == workers[w]
    IN  /\ wk.pc = "send_task"
        /\ IF Closed
           THEN UNCHANGED <<todo_queue, placed>>
           ELSE /\ todo_queue' = Append(todo_queue, Task(wk.cur, wk.ident))
                /\ placed' = placed + 1
        /\ workers' = [workers EXCEPT ![w] =
              [@ EXCEPT !.pc = "count", !.cur = -1, !.ident = 0]]
        /\ UNCHANGED <<WUnchanged, db_queue, task_done, fatal_errors, queued,
                       spawned, done, done_first, errors>>

\* a worker that forgets the queued.fetch_add(1)
WCount_Skip(w) ==
    /\ workers[w].pc = "count"
    /\ workers' = [workers EXCEPT ![w].pc = "next"]
    /\ UNCHANGED <<WUnchanged, todo_queue, db_queue, task_done, fatal_errors,
                   queued, spawned, done, done_first, errors, placed>>

\* queued.fetch_add(1)
WCount(w) ==
    /\ workers[w].pc = "count"
    /\ queued' = queued + 1
    /\ workers' = [workers EXCEPT ![w].pc = "next"]
    /\ UNCHANGED <<WUnchanged, todo_queue, db_queue, task_done, fatal_errors,
                   spawned, done, done_first, errors, placed>>

\* the worker's epilogue without the done.fetch_add
WIncDone_Skip(w) ==
    /\ workers[w].pc = "inc_done"
    /\ workers' = [workers EXCEPT ![w].pc = "send_done"]
    /\ UNCHANGED <<WUnchanged, todo_queue, db_queue, task_done, fatal_errors,
                   queued, spawned, done, done_first, errors, placed>>

\* done.fetch_add(1)
WIncDone(w) ==
    /\ workers[w].pc = "inc_done"
    /\ done' = done + 1
    /\ workers' = [workers EXCEPT ![w].pc = "send_done"]
    /\ UNCHANGED <<WUnchanged, todo_queue, db_queue, task_done, fatal_errors,
                   queued, spawned, done_first, errors, placed>>

\* task_done_tx.send(())
WSendDone(w) ==
    /\ workers[w].pc = "send_done"
    /\ IF Closed
       THEN UNCHANGED task_done
       ELSE /\ Len(task_done) < caps.task_done
            /\ task_done' = Append(task_done, "unit")
    /\ workers' = [workers EXCEPT ![w].pc = "exit"]
    /\ UNCHANGED <<WUnchanged, todo_queue, db_queue, fatal_errors, queued,
                   spawned, done, done_first, errors, placed>>

\* the driver task's next step
DriverStep == DriverSelect \/ DriverLoadQueued \/ DriverCheck

\* the steps a worker takes while the store backend is healthy
WorkerStep(w) ==
    \/ WOpen(w) \/ WNextEntry(w) \/ WNextFails(w) \/ WNextNone(w)
    \/ WReply(w) \/ WSendTask(w) \/ WCount(w) \/ WIncDone(w) \/ WSendDone(w)

\* at most this many index() runs on the root in one behaviour
MaxRuns == 2

\* a ConnectedRoot that is kept, with the counters of the Indexer it ran
DropRoot_KeepsCounters ==
    /\ conn = "returned"
    /\ Len(rootDirIds) < MaxRuns
    /\ conn' = "disconnected"
    /\ store_path' = -1
    /\ root_id' = 0
    /\ todo_queue' = <<>> /\ db_queue' = <<>> /\ task_done' = <<>>
    /\ fatal_errors' = <<>>
    /\ errors' = <<>>
    /\ workers' = <<>>
    /\ driver' = DriverIdle
    /\ result' = "none"
    /\ placed' = 0
    /\ UNCHANGED <<gvars, fsvars, direntries, entryOf, rootDirIds,
                   queued, spawned, done, done_first>>

\* index() has returned and the ConnectedRoot is dropped: the Indexer it
\* ran is gone (workers still detached hold only its dead channels), the
\* store stays on disk, and the root can be connected again
DropRoot ==
    /\ conn = "returned"
    /\ Len(rootDirIds) < MaxRuns
    /\ conn' = "disconnected"
    /\ store_path' = -1
    /\ root_id' = 0
    /\ todo_queue' = <<>> /\ db_queue' = <<>> /\ task_done' = <<>>
    /\ fatal_errors' = <<>>
    /\ queued' = 0 /\ spawned' = 0 /\ done' = 0 /\ done_first' = FALSE
    /\ errors' = <<>>
    /\ workers' = <<>>
    /\ driver' = DriverIdle
    /\ result' = "none"
    /\ placed' = 0
    /\ UNCHANGED <<gvars, fsvars, direntries, entryOf, rootDirIds>>

(***************************************************************************)
(* Concurrent callers of the global store (global_store/heed_store.rs).    *)
(* env.write_txn() waits for the one write transaction of the environment; *)
(* env.read_txn() reads the snapshot committed when it began.              *)
(***************************************************************************)
Threads == {1, 2}

\* at most this many GlobalStore calls are begun by the threads together
MaxOps == 3

\* the ids the threads pass to put_root
ThreadIds == {1, 2}

IdleThread ==
    [pc |-> "idle", op |-> "none", id |-> 0, name |-> "", overwrite |-> FALSE,
     view |-> [roots |-> EmptyMap, root_names |-> EmptyMap],
     found |-> 0, res |-> "none", got |-> None, dangling |-> FALSE,
     free |-> FALSE, before |-> None, after |-> None, n |-> 0]

IdleThreads == [t \in Threads |-> IdleThread]

\* the calls the threads have begun
OpsBegun == threads[1].n + threads[2].n

\* thread t holds the environment's write transaction
HoldsWriteTxn(t) == threads[t].pc \in {"check", "put_roots", "put_names", "commit"}

TUnchanged == <<nextUuid, calls, peers, dbs, session, fsvars, rvars, ivars>>

\* a thread calls put_root(id, root named name, overwrite)
TBeginPut(t, id, name, overwrite) ==
    /\ threads[t].pc \in {"idle", "done"}
    /\ OpsBegun < MaxOps
    /\ threads' = [threads EXCEPT ![t] =
          [IdleThread EXCEPT !.pc = "write_txn", !.op = "put_root", !.id = id,
                             !.name = name, !.overwrite = overwrite,
                             !.free = (id \notin DOMAIN roots
                                       /\ name \notin DOMAIN root_names),
                             !.n = threads[t].n + 1]]
    /\ UNCHANGED <<roots, root_names, TUnchanged>>

\* env.write_txn() that does not wait for the other writer
TWriteTxn_NoLock(t) ==
    /\ threads[t].pc = "write_txn"
    /\ threads' = [threads EXCEPT ![t] =
          [@ EXCEPT !.pc = "check",
                    !.view = [roots |-> roots, root_names |-> root_names]]]
    /\ UNCHANGED <<roots, root_names, TUnchanged>>

\* env.write_txn(): granted when no other write transaction is open; the
\* transaction works on the committed databases
TWriteTxn(t) ==
    /\ threads[t].pc = "write_txn"
    /\ \A u \in Threads \ {t} : ~HoldsWriteTxn(u)
    /\ threads' = [threads EXCEPT ![t] =
          [@ EXCEPT !.pc = "check",
                    !.view = [roots |-> roots, root_names |-> root_names]]]
    /\ UNCHANGED <<roots, root_names, TUnchanged>>

\* the guard of put_root inside the transaction; return Ok(Exists) drops
\* (aborts) the transaction
TCheck(t) ==
    LET th == threads[t]
    IN  /\ th.pc = "check"
        /\ threads' = [threads EXCEPT ![t] =
              IF put_root(th.view.roots, th.view.root_names, th.id,
                          StorableRoot(th.id, th.name, "/A"),
                          th.overwrite).status = "Exists"
              THEN [@ EXCEPT !.pc = "done", !.res = "Exists"]
              ELSE [@ EXCEPT !.pc = "put_roots"]]
        /\ UNCHANGED <<roots, root_names, TUnchanged>>

\* self.roots.put(&mut txn, &id, root)
TPutRoots(t) ==
    LET th == threads[t]
    IN  /\ th.pc = "put_roots"
        /\ threads' = [threads EXCEPT ![t] =
              [@ EXCEPT !.pc = "put_names",
                        !.view = [@ EXCEPT !.roots =
                            MapPut(th.view.roots, th.id,
                                   StorableRoot(th.id, th.name, "/A"))]]]
        /\ UNCHANGED <<roots, root_names, TUnchanged>>

\* self.root_names.put(&mut txn, &name, &id)
TPutNames(t) ==
    LET th == threads[t]
    IN  /\ th.pc = "put_names"
        /\ threads' = [threads EXCEPT ![t] =
              [@ EXCEPT !.pc = "commit",
                        !.view = [@ EXCEPT !.root_names =
                            MapPut(th.view.root_names, th.name, th.id)]]]
        /\ UNCHANGED <<roots, root_names, TUnchanged>>

\* txn.commit(): both databases change at once; Ok(PutStatus::Ok)
TCommit(t) ==
    LET th == threads[t]
    IN  /\ th.pc = "commit"
        /\ roots' = th.view.roots
        /\ root_names' = th.view.root_names
        /\ threads' = [threads EXCEPT ![t] =
              [@ EXCEPT !.pc = "done", !.res = "Ok"]]
        /\ UNCHANGED TUnchanged

\* a thread calls get_root_by_name(name)
TBeginGet(t, name) ==
    /\ threads[t].pc \in {"idle", "done"}
    /\ OpsBegun < MaxOps
    /\ threads' = [threads EXCEPT ![t] =
          [IdleThread EXCEPT !.pc = "read_txn", !.op = "get_root_by_name",
                             !.name = name, !.n = threads[t].n + 1]]
    /\ UNCHANGED <<roots, root_names, TUnchanged>>

\* env.read_txn(): the snapshot of both databases as committed now
TReadTxn(t) ==
    /\ threads[t].pc = "read_txn"
    /\ threads' = [threads EXCEPT ![t] =
          [@ EXCEPT !.pc = "get_name",
                    !.view = [roots |-> roots, root_names |-> root_names],
                    !.before = get_root_by_name(threads[t].name)]]
    /\ UNCHANGED <<roots, root_names, TUnchanged>>

\* a root_names.get that reads the database as committed at the time of
\* the get instead of the transaction's snapshot
TGetName_NoSnapshot(t) ==
    LET th == threads[t]
    IN  /\ th.pc = "get_name"
        /\ threads' = [threads EXCEPT ![t] =
              IF th.name \in DOMAIN root_names
              THEN [@ EXCEPT !.pc = "get_root",
                             !.found = root_names[th.name]]
              ELSE [@ EXCEPT !.pc = "done", !.res = "Ok", !.got = None,
                             !.after = get_root_by_name(th.name)]]
        /\ UNCHANGED <<roots, root_names, TUnchanged>>

\* self.root_names.get(&txn, &name)
TGetName(t) ==
    LET th == threads[t]
    IN  /\ th.pc = "get_name"
        /\ threads' = [threads EXCEPT ![t] =
              IF th.name \in DOMAIN th.view.root_names
              THEN [@ EXCEPT !.pc = "get_root",
                             !.found = th.view.root_names[th.name]]
              ELSE [@ EXCEPT !.pc = "done", !.res = "Ok", !.got = None,
                             !.after = get_root_by_name(th.name)]]
        /\ UNCHANGED <<roots, root_names, TUnchanged>>

\* self.roots.get(&txn, &id) and the return
TGetRoot(t) ==
    LET th == threads[t]
    IN  /\ th.pc = "get_root"
        /\ threads' = [threads EXCEPT ![t] =
              [@ EXCEPT !.pc = "done", !.res = "Ok",
                        !.got = IF th.found \in DOMAIN th.view.roots
                                THEN Some(th.view.roots[th.found]) ELSE None,
                        !.dangling = th.found \notin DOMAIN th.view.roots,
                        !.after = get_root_by_name(th.name)]]
        /\ UNCHANGED <<roots, root_names, TUnchanged>>

\* one step of a thread inside its GlobalStore call
ThreadStep(t) ==
    \/ TWriteTxn(t) \/ TCheck(t) \/ TPutRoots(t) \/ TPutNames(t) \/ TCommit(t)
    \/ TReadTxn(t) \/ TGetName(t) \/ TGetRoot(t)

(***************************************************************************)
(* Specifications                                                          *)
(***************************************************************************)
IndexerIdle ==
    /\ root_id = 0
    /\ todo_queue = <<>> /\ db_queue = <<>> /\ task_done = <<>>
    /\ fatal_errors = <<>>
    /\ queued = 0 /\ spawned = 0 /\ done = 0 /\ done_first = FALSE
    /\ errors = <<>>
    /\ workers = <<>>
    /\ driver = DriverIdle
    /\ result = "none"
    /\ placed = 0

\* a fresh Dfs on an empty global store; no root connected
InitDfs ==
    /\ roots = EmptyMap /\ root_names = EmptyMap
    /\ nextUuid = 1
    /\ calls = <<>>
    /\ peers = EmptyMap
    /\ dbs = DbNames
    /\ session = Opened(0)
    /\ threads = IdleThreads
    /\ present = {RootNode}
    /\ rootIsFile = FALSE
    /\ failing = [d \in Dirs |-> "none"]
    /\ dbFaulty = FALSE
    /\ caps = SourceCaps
    /\ conn = "disconnected"
    /\ store_path = -1
    /\ direntries = EmptyMap /\ entryOf = EmptyMap /\ rootDirIds = <<>>
    /\ IndexerIdle

\* the Dfs facade: new_root calls only
NextDfs == \E p \in Paths, n \in Names : NewRoot(p, n)

SpecDfs == InitDfs /\ [][NextDfs]_vars

\* the GlobalStore contract: new_root and direct put_root calls
NextStore ==
    \/ \E p \in Paths, n \in Names : NewRoot(p, n)
    \/ \E i \in 1..nextUuid, n \in Names, p \in {"/A", "/B"}, o \in BOOLEAN :
          PutRoot(i, n, p, o)

SpecStore == InitDfs /\ [][NextStore]_vars

\* threads sharing one GlobalStore: put_root and get_root_by_name calls
\* whose steps interleave
NextThreads ==
    \/ \E t \in Threads, i \in ThreadIds, n \in Names, o \in BOOLEAN :
          TBeginPut(t, i, n, o)
    \/ \E t \in Threads, n \in Names : TBeginGet(t, n)
    \/ \E t \in Threads : ThreadStep(t)

SpecThreads == InitDfs /\ [][NextThreads]_vars

\* the peers half of the GlobalStore contract: new_peer and direct put_peer
NextPeers ==
    \/ \E n \in Names : NewPeer(n)
    \/ \E i \in 1..nextUuid, n \in Names, o \in BOOLEAN : PutPeer(i, n, o)

SpecPeers == InitDfs /\ [][NextPeers]_vars

\* the whole facade: new_peer and new_root calls on one Dfs
NextFacade ==
    \/ \E n \in Names : NewPeer(n)
    \/ \E p \in Paths, n \in Names : NewRoot(p, n)

SpecFacade == InitDfs /\ [][NextFacade]_vars

\* Dfs sessions on one global_db: calls, drop, Dfs::new again
NextSessions ==
    \/ \E p \in Paths, n \in Names : NewRoot(p, n)
    \/ DropDfs
    \/ OpenDfs

\* nothing was ever opened at cfg.global_db
InitSessions ==
    /\ roots = EmptyMap /\ root_names = EmptyMap
    /\ nextUuid = 1
    /\ calls = <<>>
    /\ peers = EmptyMap
    /\ dbs = {}
    /\ session = [open |-> FALSE, start |-> 0]
    /\ threads = IdleThreads
    /\ present = {RootNode}
    /\ rootIsFile = FALSE
    /\ failing = [d \in Dirs |-> "none"]
    /\ dbFaulty = FALSE
    /\ caps = SourceCaps
    /\ conn = "disconnected"
    /\ store_path = -1
    /\ direntries = EmptyMap /\ entryOf = EmptyMap /\ rootDirIds = <<>>
    /\ IndexerIdle

SpecSessions == InitSessions /\ [][NextSessions]_vars

\* a root "a" at /A was created by new_root; the tree below it and the
\* directories that fail are arbitrary
InitRoot ==
    /\ roots = MapPut(EmptyMap, 1, ConnectedStorable)
    /\ root_names = MapPut(EmptyMap, "a", 1)
    /\ nextUuid = 2
    /\ calls = <<>>
    /\ peers = EmptyMap
    /\ dbs = DbNames
    /\ session = Opened(0)
    /\ threads = IdleThreads
    /\ rootIsFile = FALSE
    /\ \E t \in Trees : present = {RootNode} \cup t
    /\ failing \in {f \in FailModes : \A d \in Dirs : f[d] # "none" => d \in present}
    /\ conn = "disconnected"
    /\ store_path = -1
    /\ direntries = EmptyMap /\ entryOf = EmptyMap /\ rootDirIds = <<>>
    /\ IndexerIdle

\* the store backend is healthy
Init == InitRoot /\ dbFaulty = FALSE /\ caps = SourceCaps

\* connect, then one index() run
Next ==
    \/ Connect
    \/ StartIndex
    \/ DriverSelect
    \/ DriverLoadQueued
    \/ DriverCheck
    \/ \E w \in DOMAIN workers : WorkerStep(w)

Spec == Init /\ [][Next]_vars

\* the runtime schedules the driver and every spawned worker fairly
Fairness ==
    /\ WF_vars(Connect \/ StartIndex)
    /\ WF_vars(DriverSelect \/ DriverLoadQueued \/ DriverCheck)
    /\ \A w \in 1..Cardinality(Dirs) : WF_vars(w \in DOMAIN workers /\ WorkerStep(w))

FairSpec == Spec /\ Fairness

\* the caller's view of a connected root: root_dir() calls, then index()
NextRoot == Connect \/ RootDir \/ StartIndex

InitAnyBackend == InitRoot /\ dbFaulty \in BOOLEAN /\ caps = SourceCaps

SpecRoot == InitAnyBackend /\ [][NextRoot]_vars

\* the caller's view of a connected root whose path changes underneath it
NextRootFs == NextRoot \/ RemoveRootPath \/ ReplaceRootByFile

SpecRootFs == InitAnyBackend /\ [][NextRootFs]_vars

\* a root "a" whose path may since have been removed, replaced by a file,
\* or connected before (the hidden folder is there already)
InitConnect ==
    /\ roots = MapPut(EmptyMap, 1, ConnectedStorable)
    /\ root_names = MapPut(EmptyMap, "a", 1)
    /\ nextUuid = 2
    /\ calls = <<>>
    /\ peers = EmptyMap
    /\ dbs = DbNames
    /\ session = Opened(0)
    /\ threads = IdleThreads
    /\ \/ present = {} /\ rootIsFile = FALSE
       \/ present = {RootNode} /\ rootIsFile = TRUE
       \/ /\ rootIsFile = FALSE
          /\ \E t \in Trees, m \in SUBSET {MetaNode} :
                present = {RootNode} \cup t \cup m
    /\ failing \in {f \in FailModes :
                      \A d \in Dirs : f[d] # "none" =>
                          (d \in present /\ ~rootIsFile)}
    /\ dbFaulty \in BOOLEAN
    /\ caps = SourceCaps
    /\ conn = "disconnected"
    /\ store_path = -1
    /\ direntries = EmptyMap /\ entryOf = EmptyMap /\ rootDirIds = <<>>
    /\ IndexerIdle

SpecConnect == InitConnect /\ [][NextRoot]_vars

\* the LocalStore contract on a connected root: direct put_direntry calls
NextLocalStore ==
    \/ Connect
    \/ \E i \in 1..nextUuid, d \in BOOLEAN, o \in BOOLEAN : PutDirentry(i, d, o)

SpecLocalStore == InitAnyBackend /\ [][NextLocalStore]_vars

\* an index() run on a store backend that may fail any put
InitFaulty == InitRoot /\ dbFaulty = TRUE /\ caps = SourceCaps

NextFaulty == Next \/ \E w \in DOMAIN workers : WFatal(w)

SpecFaulty == InitFaulty /\ [][NextFaulty]_vars

\* no directory of the tree fails with an I/O error
AllReadable == \A d \in Dirs : failing[d] = "none"

\* index() runs on the same root, reconnected in between; the tree is
\* readable and does not change
InitRerun == Init /\ AllReadable

NextRerun == Next \/ DropRoot

SpecRerun == InitRerun /\ [][NextRerun]_vars

FairSpecRerun == SpecRerun /\ Fairness

\* the life of a root's store: root_dir() calls, index() runs on a backend
\* that may fail, reconnects; the tree is readable and one level deep
InitLifetime ==
    /\ InitRoot
    /\ AllReadable
    /\ 3 \notin present
    /\ dbFaulty \in BOOLEAN
    /\ caps = SourceCaps

NextLifetime == NextFaulty \/ RootDir \/ DropRoot

SpecLifetime == InitLifetime /\ [][NextLifetime]_vars

\* an index() run whose db and task_done channels hold ScaledCap messages
InitScaled == InitRoot /\ dbFaulty = FALSE /\ caps = ScaledCaps

SpecScaled == InitScaled /\ [][Next]_vars

FairSpecScaled == SpecScaled /\ Fairness

(***************************************************************************)
(* Properties of the global store and the Dfs facade                       *)
(***************************************************************************)
\* C1: after any sequence of new_root calls, successful or failing, no two
\* roots held in the global store have the same name.
C1_RootNamesUnique ==
    \A i, j \in DOMAIN roots : i # j => roots[i].name # roots[j].name

\* two roots are stored and a new_root with a name in use was refused
C1_Witness ==
    /\ Cardinality(DOMAIN roots) = 2
    /\ \E i \in DOMAIN calls : calls[i].res = "RootExists"

\* C2: on a fresh Dfs, of two new_root calls on existing directories the
\* first succeeds, and the second fails with RootExists exactly when its
\* name equals the first one's; with different names it succeeds and both
\* roots are stored.
C2_SecondFailsIffSameName ==
    (/\ Len(calls) >= 2
     /\ PathIsDir(calls[1].path)
     /\ PathIsDir(calls[2].path))
    => /\ calls[1].res = "Ok"
       /\ (calls[2].res = "RootExists") <=> (calls[2].name = calls[1].name)
       /\ calls[2].name # calls[1].name =>
             /\ calls[2].res = "Ok"
             /\ calls[1].id # calls[2].id
             /\ get_root(calls[1].id).some
             /\ get_root(calls[1].id).val.name = calls[1].name
             /\ get_root(calls[2].id).some
             /\ get_root(calls[2].id).val.name = calls[2].name

\* the same name on two different directories: the second call is refused
C2_Witness ==
    /\ Len(calls) >= 2
    /\ Canonicalize(calls[1].path) = "/A"
    /\ Canonicalize(calls[2].path) = "/B"
    /\ calls[1].name = calls[2].name
    /\ calls[1].res = "Ok"
    /\ calls[2].res = "RootExists"

\* the names some successful call stored
StoredNames == {calls[i].name : i \in {k \in DOMAIN calls : calls[k].res = "Ok"}}

\* C10: after every successful put_root (and new_root) get_root(id) returns
\* the root and get_root_by_name(name) returns the root with that id; a
\* name never stored is not found; root_names never holds a name whose id
\* is missing from roots, nor roots a root whose name is missing from
\* root_names.
C10_BothMappingsVisible ==
    /\ (calls # <<>> /\ calls[Len(calls)].res = "Ok") =>
          LET c == calls[Len(calls)]
          IN  /\ get_root(c.id).some
              /\ get_root(c.id).val.uuid = c.id
              /\ get_root(c.id).val.name = c.name
              /\ get_root_by_name(c.name).some
              /\ get_root_by_name(c.name).val.uuid = c.id
              /\ get_root_by_name(c.name).val.name = c.name
    /\ \A n \in Names \ StoredNames : get_root_by_name(n) = None
    /\ \A n \in DOMAIN root_names : root_names[n] \in DOMAIN roots
    /\ \A i \in DOMAIN roots : roots[i].name \in DOMAIN root_names

\* an overwriting put_root moved a stored name to another id
C10_Witness ==
    /\ Len(calls) >= 2
    /\ calls[Len(calls)].op = "put_root"
    /\ calls[Len(calls)].overwrite
    /\ calls[Len(calls)].res = "Ok"
    /\ \E i \in 1..(Len(calls) - 1) :
          /\ calls[i].res = "Ok"
          /\ calls[i].name = calls[Len(calls)].name
          /\ calls[i].id # calls[Len(calls)].id
    /\ \E n \in Names : n \notin StoredNames

\* the call a step made, if it made one
LastCall == calls[Len(calls)]

\* C11: put_peer(id, peer, overwrite=false) returns Exists and leaves the
\* peers map unchanged when peers[id] is present, and otherwise stores the
\* peer and returns Ok; with overwrite=true it always returns Ok and leaves
\* peers[id] equal to the given peer.
C11_PutPeerContract ==
    [][(calls' # calls /\ LastCall'.op = "put_peer") =>
         LET c == LastCall'
         IN  /\ (~c.overwrite /\ c.id \in DOMAIN peers) =>
                    (c.res = "Exists" /\ peers' = peers)
             /\ (c.overwrite \/ c.id \notin DOMAIN peers) =>
                    /\ c.res = "Ok"
                    /\ DOMAIN peers' = DOMAIN peers \cup {c.id}
                    /\ peers'[c.id] = Peer(c.id, c.name)
                    /\ \A j \in DOMAIN peers \ {c.id} : peers'[j] = peers[j]
      ]_vars

\* a put_peer on a stored id was refused, then repeated with overwrite and
\* replaced the stored peer
C11_Witness ==
    /\ Len(calls) = 3
    /\ \A i \in 1..3 : calls[i].op = "put_peer" /\ calls[i].id = calls[1].id
    /\ calls[1].res = "Ok"
    /\ ~calls[2].overwrite /\ calls[2].res = "Exists"
    /\ calls[3].overwrite /\ calls[3].res = "Ok"
    /\ calls[3].name # calls[1].name
    /\ peers[calls[3].id].name = calls[3].name

\* the new_peer calls made so far
NewPeerCalls == {i \in DOMAIN calls : calls[i].op = "new_peer"}

\* C13: after n new_peer calls on a fresh Dfs, with names chosen
\* arbitrarily (duplicates allowed), all n calls succeeded, the n peers
\* have pairwise distinct ids, and get_all_peers returns exactly n peers.
C13_NewPeerAlwaysSucceeds ==
    /\ \A i \in NewPeerCalls : calls[i].res = "Ok"
    /\ \A i, j \in NewPeerCalls : i # j => calls[i].id # calls[j].id
    /\ Cardinality(get_all_peers) = Cardinality(NewPeerCalls)
    /\ get_all_peers = {Peer(calls[i].id, calls[i].name) : i \in NewPeerCalls}

\* three peers of one name are stored
C13_Witness ==
    /\ Cardinality(NewPeerCalls) = 3
    /\ \A i \in NewPeerCalls : calls[i].name = calls[1].name
    /\ Cardinality(get_all_peers) = 3

\* C14: new_root fails with PathDoesntExist when the path does not exist
\* and with PathIsNotDir when it exists but is not a directory; in both
\* cases nothing is written to the global store, and the path error is
\* reported whether or not the given name is already in use.
C14_PathErrorsFirst ==
    [][(calls' # calls /\ LastCall'.op = "new_root") =>
         LET c == LastCall'
         IN  /\ ~PathExists(c.path) =>
                    /\ c.res = "PathDoesntExist"
                    /\ UNCHANGED <<roots, root_names, peers>>
             /\ (PathExists(c.path) /\ ~PathIsDir(c.path)) =>
                    /\ c.res = "PathIsNotDir"
                    /\ UNCHANGED <<roots, root_names, peers>>
      ]_vars

\* a name in use was given with a missing path and with a file's path
C14_Witness ==
    /\ Len(calls) = 3
    /\ calls[1].res = "Ok"
    /\ calls[2].name = calls[1].name /\ calls[3].name = calls[1].name
    /\ calls[2].res = "PathDoesntExist"
    /\ calls[3].res = "PathIsNotDir"
    /\ Cardinality(DOMAIN roots) = 1

\* C15: roots survive the Dfs session: a root created by an earlier Dfs on
\* the same global_db is returned by get_root_by_name on a later Dfs with
\* the same id, name and path, and new_root with its name on the later Dfs
\* fails with RootExists.
C15_RootsPersist ==
    (session.open /\ session.start > 0) =>
        \A i \in 1..session.start :
            (calls[i].op = "new_root" /\ calls[i].res = "Ok") =>
                /\ get_root_by_name(calls[i].name) =
                      Some(StorableRoot(calls[i].id, calls[i].name,
                                        Canonicalize(calls[i].path)))
                /\ \A j \in (session.start + 1)..Len(calls) :
                      (/\ calls[j].op = "new_root"
                       /\ calls[j].name = calls[i].name
                       /\ PathIsDir(calls[j].path))
                      => calls[j].res = "RootExists"

\* the second Dfs refused the name the first Dfs stored
C15_Witness ==
    /\ session.open /\ session.start = 1
    /\ Len(calls) = 2
    /\ calls[1].res = "Ok"
    /\ calls[2].name = calls[1].name
    /\ Canonicalize(calls[2].path) # Canonicalize(calls[1].path)
    /\ calls[2].res = "RootExists"
    /\ get_root_by_name(calls[1].name).val.uuid = calls[1].id

(***************************************************************************)
(* Properties of the ConnectedRoot and the Indexer                         *)
(***************************************************************************)
\* C16: connect fails with RootPathDoesntExist when the root's path is
\* missing and with PathIsFile when it is not a directory, in both cases
\* without creating any folder or store; otherwise it creates the hidden
\* metadata folder when absent (or reports that create_dir_all failed), and
\* after every successful connect that folder exists and the local store
\* is opened inside it.
C16_ConnectChecksPath ==
    [][(conn = "disconnected" /\ conn' # "disconnected") =>
         /\ RootNode \notin present =>
                /\ conn' = "RootPathDoesntExist"
                /\ UNCHANGED <<present, store_path, direntries>>
         /\ (RootNode \in present /\ rootIsFile) =>
                /\ conn' = "PathIsFile"
                /\ UNCHANGED <<present, store_path, direntries>>
         /\ (RootNode \in present /\ ~rootIsFile) =>
                /\ conn' \in {"connected", "CreateFolder", "DbInteractionError"}
                /\ conn' # "CreateFolder" => present' = present \cup {MetaNode}
                /\ conn' = "CreateFolder" =>
                       (MetaNode \notin present /\ present' = present)
         /\ conn' = "connected" =>
                /\ MetaNode \in present'
                /\ store_path' = MetaNode
                /\ Parent(store_path') = RootNode
         /\ conn' # "connected" => store_path' = -1
      ]_vars

\* a connect created the hidden folder and opened the store in it
C16_Witness ==
    /\ conn = "connected"
    /\ store_path = MetaNode
    /\ present = {RootNode, MetaNode}
    /\ dbFaulty

\* C12 (as claimed): put_direntry(id, entry, overwrite=false) returns Exists
\* and leaves the stored entry unchanged when direntries[id] is present;
\* with overwrite=true it replaces the entry and returns Ok.
C12_Claim_PutDirentryExists ==
    [][(/\ calls' # calls
        /\ LastCall'.op = "put_direntry"
        /\ LastCall'.res # "Err") =>
         LET c == LastCall'
         IN  /\ (~c.overwrite /\ c.id \in DOMAIN direntries) =>
                    (c.res = "Exists" /\ direntries' = direntries)
             /\ c.overwrite =>
                    /\ c.res = "Ok"
                    /\ c.id \in DOMAIN direntries'
                    /\ direntries'[c.id] =
                          StorableDirEntry(c.id, "", None, c.is_dir)
      ]_vars

\* the workers whose Task is completely processed (done was incremented)
Finished(w) == workers[w].pc \in {"send_done", "exit"}

\* the ids of the entries persisted for filesystem entry e
IdsOf(e) == {i \in DOMAIN direntries : entryOf[i] = e}

\* the entries with parent absent
RootEntries == {i \in DOMAIN direntries : ~direntries[i].parent.some}

\* C3: index() on a connected root whose tree is finite and fully readable
\* eventually returns Ok under every fair interleaving of the driver and
\* the workers.
C3_IndexTerminates == AllReadable ~> (result = "Ok")

\* a readable tree with nested directories was indexed by four workers
C3_Witness ==
    /\ AllReadable
    /\ result = "Ok"
    /\ Len(workers) = 4

\* C4: whenever index() returns Ok, every Task ever placed in todo_queue
\* has been taken and fully processed, no worker is still enumerating, and
\* every entry a worker discovered has been persisted by a put_direntry.
C4_OkImpliesQuiescent ==
    result = "Ok" =>
        /\ todo_queue = <<>>
        /\ Len(workers) = placed
        /\ \A w \in DOMAIN workers : Finished(w)
        /\ db_queue = <<>>
        /\ \A w \in DOMAIN workers : \A e \in workers[w].seen :
              \E i \in IdsOf(e) :
                  direntries[i].parent = Some(workers[w].task.parent_id)

\* index() returned Ok while the last worker had not yet sent its task_done
C4_Witness ==
    /\ result = "Ok"
    /\ Len(workers) = 4
    /\ \E w \in DOMAIN workers : workers[w].pc = "send_done"
    /\ \E w \in DOMAIN workers : workers[w].seen # {}

\* C5 (as claimed): after index() returns Ok on a freshly connected root
\* whose shared tree has k entries, the store holds exactly k + 1
\* DirEntries: one with parent absent and k whose parent is in the store.
C5_Claim_KPlusOneEntries ==
    (result = "Ok" /\ AllReadable) =>
        /\ Cardinality(DOMAIN direntries) = Cardinality(present \cap UserNodes) + 1
        /\ Cardinality(RootEntries) = 1
        /\ \A i \in DOMAIN direntries \ RootEntries :
              /\ direntries[i].parent.val \in DOMAIN direntries
              /\ direntries[i].parent.val # i

RECURSIVE ReachesRoot(_, _)
\* following parent ids from entry i reaches a root entry within n steps
ReachesRoot(i, n) ==
    IF i \notin DOMAIN direntries THEN FALSE
    ELSE IF ~direntries[i].parent.some THEN i = root_id
    ELSE IF n = 0 THEN FALSE
    ELSE ReachesRoot(direntries[i].parent.val, n - 1)

\* C6: after index() returns Ok, the DirEntry persisted for a filesystem
\* entry e has as parent the id of the DirEntry persisted for the directory
\* containing e, is of type directory exactly when e is a directory, and
\* its parent chain reaches the root entry.
C6_ParentChaining ==
    result = "Ok" =>
        /\ \A w \in DOMAIN workers : \A e \in workers[w].seen : IdsOf(e) # {}
        /\ \A i \in DOMAIN direntries :
              entryOf[i] # RootNode =>
                  /\ direntries[i].parent.some
                  /\ direntries[i].parent.val \in IdsOf(Parent(entryOf[i]))
                  /\ (direntries[i].entry_type = "Dir") <=> IsDir(entryOf[i])
                  /\ ReachesRoot(i, Cardinality(Nodes))

\* a file and a directory two levels below the root were indexed
C6_Witness ==
    /\ result = "Ok"
    /\ \E i \in DOMAIN direntries :
          /\ entryOf[i] \in {3, 4}
          /\ direntries[i].parent.val \in IdsOf(2)

\* C17: during index(), in every interleaving, an entry with parent
\* Some(p) is persisted only after the entry with id p has been persisted:
\* at no time does the store hold an entry whose parent id is not in the
\* store, and no DbMessage or Task in flight names a parent id that is not
\* yet in the store.
C17_ParentPersistedFirst ==
    /\ \A i \in DOMAIN direntries :
          direntries[i].parent.some =>
              /\ direntries[i].parent.val \in DOMAIN direntries
              /\ direntries[i].parent.val # i
    /\ \A k \in DOMAIN db_queue : db_queue[k].parent_id \in DOMAIN direntries
    /\ \A k \in DOMAIN todo_queue : todo_queue[k].parent_id \in DOMAIN direntries
    /\ \A w \in DOMAIN workers : workers[w].task.parent_id \in DOMAIN direntries

\* an entry two levels below the root is stored while another DbMessage is
\* still waiting for the persister
C17_Witness ==
    /\ result = "running"
    /\ db_queue # <<>>
    /\ \E i \in DOMAIN direntries :
          /\ entryOf[i] = 3
          /\ direntries[i].parent.val \in IdsOf(2)

\* C18: if a put_direntry issued by the persister fails with a backend
\* error, index() returns Err(DbInteractionError) without handling any
\* further DbMessage; every entry persisted before the failure stays in the
\* store complete and unchanged, and the failed entry is not in the store.
C18_PutFailureAborts ==
    [][/\ (result = "running" /\ nextUuid' # nextUuid
                              /\ DOMAIN direntries' = DOMAIN direntries) =>
              result' = "DbInteractionError"
       /\ (result = "running" /\ result' = "DbInteractionError") =>
              /\ direntries' = direntries
              /\ nextUuid \notin DOMAIN direntries'
              /\ nextUuid' = nextUuid + 1
       /\ result = "DbInteractionError" =>
              /\ result' = result
              /\ direntries' = direntries
              /\ nextUuid' = nextUuid
              /\ nextUuid - 1 \notin DOMAIN direntries
      ]_vars

\* the put failed with entries already stored and with another worker's
\* DbMessage still queued: that worker never got its id
C18_Witness ==
    /\ result = "DbInteractionError"
    /\ Cardinality(DOMAIN direntries) >= 2
    /\ Cardinality({w \in DOMAIN workers :
                       workers[w].pc \in {"fatal", "panic"}}) >= 2

\* the NonFatalIndexErrors the caller of ConnectedRoot::index holds when it
\* has returned: Result<(), IndexError> carries none, and index(self)
\* consumed the Indexer that owned Inner.errors
ReturnedErrors == <<>>

\* C19 (as claimed): the non-fatal errors collected while indexing are
\* returned to the caller in aggregate when index() finishes.
C19_Claim_ErrorsReturned ==
    result = "Ok" => ReturnedErrors = errors

\* the errors pushed for directory d
ErrorsFor(d) == {i \in DOMAIN errors : errors[i].path = d}

\* the workers whose process_task returned a NonFatalIndexError
Failed(w) ==
    IF w \in DOMAIN workers
    THEN /\ failing[workers[w].task.path] # "none"
         /\ workers[w].pc \in {"inc_done", "send_done", "exit"}
         /\ ErrorsFor(workers[w].task.path) # {}
    ELSE FALSE

\* the spawned task of worker w has run to its end
Exited(w) ==
    IF w \in DOMAIN workers THEN workers[w].pc = "exit" ELSE FALSE

Returned(w) ==
    IF w \in DOMAIN workers
    THEN workers[w].pc \in {"inc_done", "send_done", "exit"}
    ELSE FALSE

\* the workers processing the root Task
RootWorkers ==
    {w \in DOMAIN workers : workers[w].task.parent_id = root_id}

\* C21 (as claimed): done_first is true once the worker processing the
\* root Task has finished, on every way it can finish (a failing open or
\* enumeration of the root directory included), and false before.
C21_Claim_DoneFirstOnFinish ==
    result = "running" =>
        (done_first <=> \E w \in RootWorkers : Returned(w))

\* C22 (as claimed): in every reachable state of an index() run queued
\* equals the number of Tasks ever placed in todo_queue, the seed included.
C22_Claim_QueuedCountsPlaced ==
    result = "running" => queued = placed

\* C23 (as claimed): in every reachable state of an index() run, if
\* queued = done then every Task placed in todo_queue has been completely
\* processed by a worker.
C23_Claim_QueuedEqDoneMeansDone ==
    (result = "running" /\ queued = done) =>
        /\ todo_queue = <<>>
        /\ Len(workers) = placed
        /\ \A w \in DOMAIN workers : Returned(w)

\* a Task for directory e is in todo_queue or with a worker
TaskPlacedFor(e) ==
    \/ \E k \in DOMAIN todo_queue : todo_queue[k].path = e
    \/ \E w \in DOMAIN workers : workers[w].task.path = e

\* the workers between todo_queue_tx.send and queued.fetch_add
Counting == {w \in DOMAIN workers : workers[w].pc = "count"}

\* C24: queued, spawned and done never decrease; a worker increments done
\* only after its Task is fully processed (its entries persisted, its
\* sub-Tasks sent and counted in queued); and the values the driver loads
\* for its termination check (done, then queued, then spawned) satisfy
\* done <= queued and done <= spawned, so queued - done and spawned - done
\* never underflow.
C24_CountersNeverUnderflow ==
    /\ [][/\ queued' >= queued /\ spawned' >= spawned /\ done' >= done
          /\ (result = "running" /\ done' # done) =>
                \E w \in DOMAIN workers :
                    /\ workers[w].pc = "inc_done"
                    /\ workers'[w].pc = "send_done"
                    /\ done' = done + 1
                    /\ workers[w].cur = -1 /\ workers[w].reply = 0
                    /\ \A e \in workers[w].seen :
                          /\ IdsOf(e) # {}
                          /\ IsDir(e) => TaskPlacedFor(e)
         ]_vars
    /\ [](result = "running" =>
            /\ queued + Cardinality(Counting) = placed
            /\ done <= queued /\ done <= spawned
            /\ driver.pc = "check" =>
                  /\ driver.done <= driver.queued
                  /\ driver.done <= driver.spawned
                  /\ driver.done <= done
                  /\ driver.queued <= queued
                  /\ driver.spawned <= spawned)

\* the driver tests values loaded before a worker finished, while another
\* worker has sent a sub-Task it has not counted yet
C24_Witness ==
    /\ result = "running"
    /\ driver.pc = "check"
    /\ driver.done >= 1
    /\ done > driver.done
    /\ Counting # {}

\* the Tasks for directory d: waiting in todo_queue or handed to a worker
TasksFor(d) ==
    Cardinality({k \in DOMAIN todo_queue : todo_queue[k].path = d})
    + Cardinality({w \in DOMAIN workers : workers[w].task.path = d})

\* the workers that sent a DbMessage for entry e
SendersOf(e) == {w \in DOMAIN workers : e \in workers[w].seen}

\* C25: in one index() run on a static tree every Task placed in
\* todo_queue is handed to exactly one worker, every directory is the path
\* of exactly one Task, and every entry below the root causes exactly one
\* DbMessage and exactly one put_direntry: never two at any time, and
\* exactly one of each when index() returns Ok (for a directory that could
\* not be read: for the entries enumerated before the failure).
C25_NoLostNoDuplicatedWork ==
    result \in {"running", "Ok"} =>
        /\ Len(todo_queue) + Len(workers) = placed
        /\ \A d \in Dirs : TasksFor(d) <= 1
        /\ \A e \in Nodes \ {RootNode} :
              /\ Cardinality(SendersOf(e)) <= 1
              /\ Cardinality({k \in DOMAIN db_queue : db_queue[k].entry = e}) <= 1
              /\ Cardinality(IdsOf(e)) <= 1
              /\ IdsOf(e) # {} => SendersOf(e) # {}
        /\ result = "Ok" =>
              /\ todo_queue = <<>>
              /\ TasksFor(RootNode) = 1
              /\ \A w \in DOMAIN workers :
                    /\ failing[workers[w].task.path] = "none" =>
                          workers[w].seen = Children(workers[w].task.path)
                    /\ \A e \in workers[w].seen :
                          /\ Cardinality(IdsOf(e)) = 1
                          /\ IsDir(e) => TasksFor(e) = 1
              /\ AllReadable =>
                    /\ \A d \in present \cap Dirs : TasksFor(d) = 1
                    /\ \A e \in present \ {RootNode} :
                          /\ Cardinality(SendersOf(e)) = 1
                          /\ Cardinality(IdsOf(e)) = 1

\* a readable tree with a directory and a file in it was indexed by three
\* workers: the store holds the root entry and one entry each for .dfs,
\* a and a/d.txt
C25_Witness ==
    /\ result = "Ok"
    /\ present = {RootNode, MetaNode, 2, 4}
    /\ Len(workers) = 3
    /\ Cardinality(DOMAIN direntries) = 4

C27_SubTaskOnlyForDirectories ==
    /\ [][result = "running" =>
            \* the received id is kept only for a directory
            /\ \A w \in DOMAIN workers :
                  (workers[w].pc = "wait" /\ workers'[w].pc # "wait") =>
                     /\ todo_queue' = todo_queue /\ queued' = queued
                     /\ IF workers[w].reply > 0 /\ IsDir(workers[w].cur)
                        THEN /\ workers'[w].pc = "send_task"
                             /\ workers'[w].ident = workers[w].reply
                             /\ workers'[w].cur = workers[w].cur
                        ELSE workers'[w].pc \in {"next", "fatal"}
            \* todo_queue grows only by the sub-Task of such a worker
            /\ todo_queue' # todo_queue /\ Len(todo_queue') >= Len(todo_queue) =>
                  \E w \in DOMAIN workers :
                     /\ workers[w].pc = "send_task"
                     /\ workers'[w].pc = "count"
                     /\ IsDir(workers[w].cur)
                     /\ workers[w].ident \in IdsOf(workers[w].cur)
                     /\ todo_queue' = Append(todo_queue,
                           [path |-> workers[w].cur,
                            parent_id |-> workers[w].ident])
                     /\ queued' = queued
            \* queued grows only by one, for a sub-Task just sent
            /\ queued' # queued =>
                  \E w \in DOMAIN workers :
                     /\ workers[w].pc = "count"
                     /\ workers'[w].pc = "next"
                     /\ queued' = queued + 1
                     /\ todo_queue' = todo_queue
         ]_vars
    /\ [](result \in {"running", "Ok"} =>
            /\ \A e \in Nodes : TasksFor(e) > 0 => IsDir(e)
            /\ \A k \in DOMAIN todo_queue :
                  todo_queue[k].parent_id \in IdsOf(todo_queue[k].path)
            /\ \A w \in DOMAIN workers :
                  workers[w].task.parent_id \in IdsOf(workers[w].task.path)
            /\ result = "Ok" =>
                  queued = 1 + Cardinality(
                     {e \in Nodes : IsDir(e) /\ SendersOf(e) # {}}))

\* the worker of directory a, whose Task carries the id stored for a, has
\* had file a/d.txt persisted and goes on without a Task for it: queued
\* counts the root, .dfs and a
C27_Witness ==
    /\ result = "running"
    /\ IdsOf(4) # {}
    /\ TasksFor(4) = 0
    /\ queued = 3
    /\ \E w \in DOMAIN workers :
          /\ workers[w].task.path = 2
          /\ workers[w].task.parent_id \in IdsOf(2)
          /\ workers[w].pc = "next"
          /\ 4 \in workers[w].seen

\* C28: during index() every put_direntry on the per-root store is made by
\* the driver: the root entry by Indexer::new before any worker exists,
\* every other entry by the persister branch of the select loop, one
\* DbMessage and one entry per step; no worker step changes the store, and
\* no put is made while another is in progress (a put is part of the one
\* driver step, during which the driver takes no other branch).
C28_SingleWriter ==
    [][direntries' # direntries =>
         /\ Cardinality(DOMAIN direntries' \ DOMAIN direntries) = 1
         /\ \A i \in DOMAIN direntries : direntries'[i] = direntries[i]
         /\ \/ /\ result = "none"
               /\ conn = "connected"
               /\ workers = <<>> /\ workers' = <<>>
               /\ result' \in {"running", "GetRootDir"}
            \/ /\ result = "running"
               /\ driver.pc = "select"
               /\ driver' = driver
               /\ db_queue # <<>>
               /\ db_queue' = Tail(db_queue)
               /\ DOMAIN workers' = DOMAIN workers
               /\ \A w \in DOMAIN workers :
                     /\ workers'[w].pc = workers[w].pc
                     /\ workers'[w].seen = workers[w].seen
                     /\ w # Head(db_queue).resp => workers'[w] = workers[w]
    ]_vars

\* two workers asked for a put at the same time: one entry is stored and
\* answered, the other DbMessage is still waiting in db_queue
C28_Witness ==
    /\ result = "running"
    /\ \E w1, w2 \in DOMAIN workers :
          /\ w1 # w2
          /\ workers[w1].pc = "wait" /\ workers[w1].reply \in DOMAIN direntries
          /\ workers[w2].pc = "wait" /\ workers[w2].reply = 0
          /\ \E k \in DOMAIN db_queue : db_queue[k].resp = w2

\* the workers suspended in db_tx.send(..).await on a full db_queue
BlockedOnDb ==
    {w \in DOMAIN workers :
        /\ workers[w].pc = "next" /\ workers[w].rem # {}
        /\ ~Closed /\ Len(db_queue) >= caps.db_queue}

\* the workers suspended in task_done_tx.send(()).await on a full channel
BlockedOnTaskDone ==
    {w \in DOMAIN workers :
        /\ workers[w].pc = "send_done"
        /\ ~Closed /\ Len(task_done) >= caps.task_done}

\* the workers in resp_rx.await whose DbMessage is not answered yet
Unanswered ==
    {w \in DOMAIN workers : workers[w].pc = "wait" /\ workers[w].reply = 0}

\* C29: the bounded db_queue and task_done channels cannot deadlock the
\* indexer, also when there are more simultaneous workers than a channel
\* holds: whenever a worker is blocked sending on a full db_queue or a full
\* task_done channel, or waits for the answer to a DbMessage, the driver can
\* take a step, and its select takes the branch of a full task_done channel
\* first and that of db_queue once task_done is drained; under fair
\* scheduling every blocked send gets through and every DbMessage is
\* answered, or index() returns and the channels are closed.
C29_ChannelsCannotDeadlock ==
    /\ [](result = "running" =>
            /\ BlockedOnDb \cup BlockedOnTaskDone \cup Unanswered # {} =>
                  ENABLED DriverStep
            /\ \A w \in Unanswered :
                  \E k \in DOMAIN db_queue : db_queue[k].resp = w
            /\ (driver.pc = "select" /\ BlockedOnTaskDone # {}) =>
                  /\ driver.no_next_task = "pending"
                  /\ task_done # <<>>
            /\ (driver.pc = "select" /\ BlockedOnDb \cup Unanswered # {}
                  /\ task_done = <<>>) =>
                  /\ driver.no_next_task = "pending"
                  /\ fatal_errors = <<>>
                  /\ db_queue # <<>>)
    /\ <>[](BlockedOnDb = {} /\ BlockedOnTaskDone = {} /\ Unanswered = {})

\* more workers than db_queue holds: one is blocked sending its DbMessage
\* behind the unanswered DbMessage of another
C29_Witness ==
    /\ result = "running"
    /\ BlockedOnDb # {}
    /\ Unanswered # {}
    /\ Len(workers) > caps.db_queue

\* C30: the driver never leaves its loop through the no-more-tasks
\* branch: the oneshot the select polls is never resolved (todo_queue is
\* never closed while the Indexer lives, and pumping a Task installs a new
\* oneshot in place of the one whose sender was dropped), so pumping leaves
\* index() running; every Ok return is made by the task_done check, with
\* the loaded queued - done = 0 and spawned - done = 0 and done_first set,
\* when no Task is queued and no worker is in flight.
C30_OkOnlyFromTaskDoneCheck ==
    /\ [](driver.no_next_task = "pending")
    /\ [][/\ Len(workers') > Len(workers) =>
                /\ result = "running" /\ result' = "running"
                /\ driver.pc = "select" /\ driver'.pc = "select"
                /\ driver'.no_next_task = "pending"
                /\ workers' = Append(workers, NewWorker(Head(todo_queue)))
          /\ (result # "Ok" /\ result' = "Ok") =>
                /\ result = "running"
                /\ driver.pc = "check"
                /\ driver.queued - driver.done = 0
                /\ driver.spawned - driver.done = 0
                /\ done_first
                /\ todo_queue = <<>>
                /\ \A w \in DOMAIN workers : Finished(w)
         ]_vars

\* index() returned Ok from the task_done check, after the driver had
\* pumped three Tasks
C30_Witness ==
    /\ result = "Ok"
    /\ driver.no_next_task = "pending"
    /\ spawned = 3
    /\ driver.done = 3 /\ driver.queued = 3 /\ driver.spawned = 3
    /\ done_first

\* C31: no send by a worker on todo_queue, db_queue, task_done or
\* fatal_errors fails before index() has returned: while the driver loop
\* runs, every send a worker completes delivers its message to the channel,
\* and no reply channel has been dropped (so no worker is on its way to
\* report a fatal error).
C31_SendsSucceedWhileRunning ==
    /\ [](result = "running" =>
            \A w \in DOMAIN workers :
                /\ workers[w].reply # -1
                /\ workers[w].pc \notin {"fatal", "panic"})
    /\ [][result = "running" =>
            \A w \in DOMAIN workers :
                /\ (workers[w].pc = "next" /\ workers'[w].pc = "wait") =>
                      /\ db_queue' = Append(db_queue,
                            [resp |-> w, entry |-> workers'[w].cur,
                             parent_id |-> workers[w].task.parent_id])
                      /\ workers'[w].reply = 0
                /\ (workers[w].pc = "send_task" /\ workers'[w].pc = "count") =>
                      todo_queue' = Append(todo_queue,
                            [path |-> workers[w].cur,
                             parent_id |-> workers[w].ident])
                /\ (workers[w].pc = "send_done" /\ workers'[w].pc = "exit") =>
                      task_done' = Append(task_done, "unit")
                /\ (workers[w].pc = "fatal" /\ workers'[w].pc = "panic") =>
                      fatal_errors' = Append(fatal_errors, "GetId")
         ]_vars

\* index() is running on a backend that may fail, and todo_queue, db_queue
\* and task_done each hold a message a worker sent
C31_Witness ==
    /\ result = "running"
    /\ dbFaulty
    /\ Len(todo_queue) > 0
    /\ Len(db_queue) > 0
    /\ Len(task_done) > 0

\* C32 (as claimed): a worker whose reply channel was dropped without a
\* reply raises FatalError::GetId on fatal_errors and index() returns
\* Err(FatalError(GetId)): whenever a worker has gone through that arm, the
\* fatal error is in the channel or is what index() returned.
C32_Claim_FatalOnReplyDrop ==
    \A w \in DOMAIN workers :
        workers[w].pc = "panic" =>
            \/ result = "FatalError"
            \/ result = "running" /\ fatal_errors # <<>>

\* C33: index() run a second time on the same root with an unchanged,
\* readable tree, after the root was reconnected, eventually returns Ok
\* under fair scheduling: it never fails with IndexError::Exists (or any
\* other error) and it does not hang.
C33_RerunTerminates ==
    /\ [](result \in {"none", "running", "Ok"})
    /\ [](AllReadable /\ result = "running" => <>(result = "Ok"))

\* the second index() run on a readable tree with nested directories
\* returned Ok; the store holds the entries of both runs
C33_Witness ==
    /\ AllReadable
    /\ Len(rootDirIds) = 2
    /\ result = "Ok"
    /\ Len(workers) = 4
    /\ Cardinality(DOMAIN direntries) = 8

\* C34: once a put_direntry for id i has committed, get_by_id(i) returns
\* Some entry with the same id, parent, path and type in every later state:
\* no root_dir() call, persister step, index() run or reconnect removes the
\* entry or changes its content.
C34_EntriesStable ==
    [][\A i \in DOMAIN direntries :
          /\ get_by_id(direntries', i) = Some(direntries[i])
          /\ get_by_id(direntries, i).val.uuid = i
      ]_vars

\* a second index() run has stored a second entry for directory a, next
\* to the entries of the first run and the root entry of a caller's
\* root_dir()
C34_Witness ==
    /\ result = "running"
    /\ Cardinality(IdsOf(2)) = 2
    /\ Cardinality(RootEntries) = 3

\* C35 (as claimed): after any sequence of put_root calls with any mix of
\* overwrite = false and overwrite = true, no two roots in the roots map
\* have the same name, and root_names[n] = id implies that roots[id] exists
\* and has name n.
C35_Claim_NamesUniqueAnyOverwrite ==
    /\ \A i, j \in DOMAIN roots : roots[i].name = roots[j].name => i = j
    /\ \A n \in DOMAIN root_names :
          /\ root_names[n] \in DOMAIN roots
          /\ roots[root_names[n]].name = n

\* both threads have finished a put_root with overwrite = false for the
\* same name and different ids, each begun while the id and the name were
\* free (so neither call began after the other had committed)
RacingPuts ==
    /\ \A t \in Threads :
          /\ threads[t].pc = "done"
          /\ threads[t].op = "put_root"
          /\ ~threads[t].overwrite
          /\ threads[t].free
    /\ threads[1].name = threads[2].name
    /\ threads[1].id # threads[2].id

\* C36: when two threads call put_root concurrently with overwrite = false,
\* different ids and the same name, in every interleaving exactly one call
\* returns Ok and the other Exists, and the store then holds exactly one
\* root with that name, the winner's.
C36_ConcurrentPutsOneWins ==
    RacingPuts =>
        \E w \in Threads : \E l \in Threads \ {w} :
            /\ threads[w].res = "Ok"
            /\ threads[l].res = "Exists"
            /\ {i \in DOMAIN roots : roots[i].name = threads[w].name}
                  = {threads[w].id}
            /\ root_names[threads[w].name] = threads[w].id

\* two put_root calls for the same free name raced: one returned Ok, the
\* other Exists
C36_Witness ==
    /\ RacingPuts
    /\ threads[1].res = "Exists"
    /\ threads[2].res = "Ok"

\* C37: a get_root_by_name(name) running concurrently with put_root calls
\* returns what the store held for the name when the read began or what it
\* holds when the read returns (None or a complete stored root); it never
\* finds the name in root_names and then misses the id in roots.
C37_ReadsConsistentSnapshot ==
    \A t \in Threads :
        (threads[t].pc = "done" /\ threads[t].op = "get_root_by_name") =>
            /\ ~threads[t].dangling
            /\ threads[t].got \in {threads[t].before, threads[t].after}
            /\ threads[t].got.some =>
                  \E i \in DOMAIN roots : roots[i].uuid = threads[t].got.val.uuid

\* a put_root for the name committed while the read was in progress: the
\* read returned None, the state before the put
C37_Witness ==
    \E t \in Threads : \E u \in Threads \ {t} :
        /\ threads[t].pc = "done" /\ threads[t].op = "get_root_by_name"
        /\ threads[u].pc = "done" /\ threads[u].op = "put_root"
        /\ threads[u].name = threads[t].name
        /\ threads[u].res = "Ok"
        /\ threads[t].before = None
        /\ threads[t].after # None
        /\ threads[t].got = None

\* C38: root_dir() returns Exists when the root's path no longer exists and
\* NotDir when the path exists but is not a directory and a root entry must
\* be created; in both error cases no DirEntry is written to the per-root
\* store.
C38_RootDirPathErrors ==
    [][(calls' # calls /\ LastCall'.op = "root_dir") =>
         LET c == LastCall'
             mustCreate ==
                 ~(ConnectedStorable.root_direntry_id.some
                   /\ get_by_id(direntries, ConnectedStorable.root_direntry_id.val).some)
         IN  /\ RootNode \notin present => c.res = "Exists"
             /\ (RootNode \in present /\ rootIsFile /\ mustCreate) => c.res = "NotDir"
             /\ c.res \in {"Exists", "NotDir"} =>
                   /\ direntries' = direntries
                   /\ c.id = 0]_vars

\* both errors were returned to the caller, and the store is still empty
C38_Witness ==
    /\ Len(calls) = 2
    /\ calls[1].op = "root_dir" /\ calls[1].res = "NotDir"
    /\ calls[2].op = "root_dir" /\ calls[2].res = "Exists"
    /\ rootDirIds = <<0, 0>>
    /\ DOMAIN direntries = {}

\* a stored record is whole: every field of a DirEntry, under its own uuid
WholeEntry(i, d) ==
    /\ DOMAIN d = {"path", "entry_type", "uuid", "parent"}
    /\ d.uuid = i
    /\ d.entry_type \in {"Dir", "File"}
    /\ d.parent = None \/ (d.parent.some /\ d.parent.val \in Nat)

\* C39: after index() has returned (Ok or Err) no further put_direntry
\* happens on the per-root store (workers still running cannot cause a
\* write), and every put is all-or-nothing: a step adds one whole entry or
\* nothing, a put that fails adds nothing, and every stored entry is whole.
C39_NoWriteAfterReturn ==
    /\ [](\A i \in DOMAIN direntries : WholeEntry(i, direntries[i]))
    /\ [][/\ Closed => direntries' = direntries
          /\ (Closed' /\ ~Closed) => direntries' = direntries
          /\ direntries' # direntries =>
                \E i \in DOMAIN direntries' \ DOMAIN direntries :
                   direntries' = MapPut(direntries, i, direntries'[i])]_vars

\* index() returned an error, a worker that was still enumerating then had
\* its send refused and another has entries left; the store holds what the
\* driver had written
C39_Witness ==
    /\ Closed
    /\ result # "Ok"
    /\ \E w, v \in DOMAIN workers :
          /\ workers[w].pc \in {"fatal", "panic"}
          /\ workers[v].pc = "next" /\ workers[v].rem # {}
    /\ Cardinality(DOMAIN direntries) >= 2

\* C7 (as claimed): if opening or reading any directory of the tree fails,
\* the root directory included, index() still eventually returns Ok.
C7_Claim_OkDespiteIoError == (~AllReadable) ~> (result = "Ok")

\* C8 (as claimed): the first root_dir() persists an entry "/" with parent
\* absent and type directory, and every later root_dir() on that root
\* returns an entry with the same id.
C8_Claim_RootDirSameId ==
    \A k \in DOMAIN rootDirIds :
        (rootDirIds[1] # 0 /\ rootDirIds[k] # 0) =>
            /\ rootDirIds[1] \in DOMAIN direntries
            /\ direntries[rootDirIds[1]].path = "/"
            /\ ~direntries[rootDirIds[1]].parent.some
            /\ direntries[rootDirIds[1]].entry_type = "Dir"
            /\ rootDirIds[k] = rootDirIds[1]

\* C9 (as claimed): in every reachable state of a per-root store at most
\* one DirEntry has parent absent, and its path is "/".
C9_Claim_OneRootEntry ==
    /\ Cardinality(RootEntries) <= 1
    /\ \A i \in RootEntries : direntries[i].path = "/"

====
